---- MODULE Spec2Model ----
(***************************************************************************)
(* Dynamic hardware-prefetcher tuner (dPF).                                *)
(*                                                                         *)
(*   Spec     the user-space runtime of src/main.c on one 4-core module:   *)
(*            one worker thread per core running thread_start, the SIGINT  *)
(*            handler and main's join.                                     *)
(*   ModSpec  the same runtime on two modules (a module lead that is not   *)
(*            the primary worker), while no SIGINT is delivered.           *)
(*   KSpec    the kernel module of src/kernelmod/kernel_dpf.c: callers of  *)
(*            the pseudo-file's proc_read and dpf_proc_write.              *)
(***************************************************************************)
EXTENDS Integers, Sequences, FiniteSets, TLC

VARIABLES
    \* ---- user-space runtime (src/main.c) ----
    pc,              \* position of every worker inside thread_start
    iter,            \* loop iterations (ticks) a worker has started
    arrivals,        \* atomic_fetch_add(&syncflag, 1) calls a worker has made
    published,       \* tick whose deltas are in tstate->pmu_result / instructions_retired / cpu_cycles
    syncflag,        \* volatile int syncflag
    quitflag,        \* volatile int quitflag
    tunealg,         \* int tunealg (0, 1 basic; 2 MAB)
    hwpf_msr_dirty,  \* tstate->hwpf_msr_dirty of every worker
    hwpf_msr_value,  \* tstate->hwpf_msr_value of every worker
    mstate_arm,      \* mstate.arm
    msr,             \* the prefetch MSR of every 4-core module (hardware)
    msr_orig,        \* the value each module's prefetch MSR had before the program started
    msr_writers,     \* workers that have issued msr_hwpf_write
    tuner_runs,      \* completed calculate_settings() invocations
    applied,         \* tick of the last apply-phase MSR update of every worker (0: none)
    sigpc,           \* position inside sigintHandler
    mainpc,          \* position of main after the threads are created
    core_first,      \* int core_first (--core a-b)
    core_last        \* int core_last

uvars == <<pc, iter, arrivals, published, syncflag, quitflag, tunealg,
           hwpf_msr_dirty, hwpf_msr_value, mstate_arm, msr, msr_orig,
           msr_writers, tuner_runs, applied, sigpc, mainpc, core_first, core_last>>

VARIABLES
    \* ---- kernel module (src/kernelmod/kernel_dpf.c) ----
    kpc,              \* position of every caller inside proc_read / dpf_proc_write
    kcall,            \* the arguments of a caller's current (or last) call
    kret,             \* the value a caller's last call returned
    dpf_mutex,        \* holder of dpf_mutex (0: unlocked)
    proc_buffer,      \* static char *proc_buffer (0: NULL)
    proc_buffer_size, \* static size_t proc_buffer_size
    heap,             \* contents of the kmalloc addresses ("free" when not allocated)
    core_disabled,    \* corestate[core_id].core_disabled
    k_ddr_bw_target,  \* ddr_bw_target of the kernel module
    keep_running,     \* static bool keep_running
    timer_armed,      \* monitor_timer is started (hrtimer_start / hrtimer_cancel)
    wr_resp,          \* dpf_proc_write: the handler's local resp
    rd_ptr,           \* proc_read: the proc_buffer value passed to copy_to_user
    rd_size,          \* proc_read: the proc_buffer_size value passed to copy_to_user
    rd_data,          \* proc_read: what copy_to_user delivered
    rd_stale,         \* proc_read: the buffer behind rd_ptr was kfree'd meanwhile
    rd_quiet,         \* proc_read: no dpf_proc_write was in progress since the call began
    last_ok,          \* response built by the most recent write that returned success
    tuning_req        \* req->enable of the most recent TUNING request handled
                      \* (NoTuning: none yet)

kvars == <<kpc, kcall, kret, dpf_mutex, proc_buffer, proc_buffer_size, heap,
           core_disabled, k_ddr_bw_target, keep_running, timer_armed,
           wr_resp, rd_ptr, rd_size, rd_data, rd_stale, rd_quiet, last_ok,
                   tuning_req>>

VARIABLES
    \* ---- main before the threads are created (src/main.c) ----
    argv,             \* the command-line options getopt_long has not returned yet
    exit_status,      \* what main returned ("none" while it runs)
    ddr_bw_target,    \* int ddr_bw_target
    ddr_bw_auto_utilization, \* float ddr_bw_auto_utilization, in percent
    time_intervall,   \* float time_intervall, in units of 0.0001 s
    aggr,             \* float aggr, in tenths
    weight_string,    \* char weight_string[MAX_WEIGHT_STR_LEN]
    core_priority,    \* int core_priority[MAX_THREADS], and at index MAX_THREADS
                      \* the int that follows the array in memory
    pw_tokens,        \* parse_weights: what strtok has still to return
    core_count,       \* parse_weights: int core_count
    pw_ret,           \* parse_weights: its return value ("none" before it returns)
    dmi_bandwidth,    \* what dmi_get_bandwidth() returns on this machine
    opts_seen         \* the options getopt_long has returned, in order

svars == <<argv, exit_status, ddr_bw_target, ddr_bw_auto_utilization,
           time_intervall, aggr, weight_string, core_priority, pw_tokens,
           core_count, pw_ret, dmi_bandwidth, opts_seen>>

\* thread_start's counter snapshots (one PMU counter and the instruction counter)
VARIABLES
    pmu_old,              \* uint64_t pmu_old[i]
    pmu_new,              \* uint64_t pmu_new[i]
    pmu_result,           \* tstate->pmu_result[i]
    instructions_old,
    instructions_new,
    instructions_retired, \* tstate->instructions_retired
    old_set,              \* the operand of the subtraction has been given a value
    dpc,                  \* where the thread is in its sample phase
    dtick                 \* deltas published so far

dvars == <<pmu_old, pmu_new, pmu_result, instructions_old, instructions_new,
           instructions_retired, old_set, dpc, dtick>>

\* the basic tuner (basicalg): the level of each module and its input
VARIABLES
    level,        \* index into the table of prefetcher-MSR values, per module
    bw,           \* aggregate DDR bandwidth observed in this tick
    prev_level,   \* level before this tick's decision
    over_ticks,   \* ticks in a row with the bandwidth far above the target
    slack_ticks,  \* ticks in a row with the bandwidth far below the target
    btick         \* decisions taken so far

bvars == <<level, bw, prev_level, over_ticks, slack_ticks, btick>>

\* the MAB tuner (mab): mstate
VARIABLES
    trials,       \* pulls recorded per arm
    reward_sum,   \* rewards recorded per arm (mean_reward = reward_sum / trials)
    selection,    \* how the arm of this tick was chosen
    pulls         \* the arms chosen so far, in order

mvars == <<trials, reward_sum, selection, pulls>>

\* the kernel module's timer callback
VARIABLES
    tpc,          \* where monitor_callback is
    t_core,       \* its loop variable core_id
    msr_dirty,    \* is_msr_dirty(core_id), per core
    pmu_updated,  \* cores pmu_update ran for in this callback
    callbacks     \* callbacks started so far

tvars == <<tpc, t_core, msr_dirty, pmu_updated, callbacks>>

\* thread_start's bandwidth self-test
VARIABLES
    stpc,         \* where every thread is in the self-test block
    ddrbwflag,    \* volatile int ddrbwflag
    bw_measured   \* what ddrmembw_measurement() returned to every thread

avars == <<stpc, ddrbwflag, bw_measured>>

\* the state main's start-up leaves alone, apart from the kernel module's
nvars == <<dvars, bvars, mvars, tvars, avars>>

xvars == <<svars, nvars>>

vars == <<uvars, kvars, xvars>>

----------------------------------------------------------------------------
(* Bounds of the model *)

\* ticks a worker may start
MaxTick == 3
\* largest prefetch-MSR image / arm index
MaxMsr == 1

(* Program constants and configuration *)

MAB == 2
MODULE_SIZE == 4
ACTIVE_THREADS == core_last - core_first + 1
Workers == core_first .. core_last
CORE_IN_MODULE(w) == (w - core_first) % MODULE_SIZE
ModuleOf(w) == (w - core_first) \div MODULE_SIZE
Modules == {ModuleOf(w) : w \in Workers}
Leads == {w \in Workers : CORE_IN_MODULE(w) = 0}
MsrValues == 0 .. MaxMsr
Arms == 0 .. MaxMsr
arms_hwpf_msr_values == [a \in Arms |-> MaxMsr - a]

ProcessExited == sigpc = "exited" \/ mainpc = "exited"

----------------------------------------------------------------------------
(* thread_start *)

\* msr_init + msr_hwpf_write + msr_enable_fixed + pmu_core_config
InitMsrValues(w) == {hwpf_msr_value[w], msr[ModuleOf(w)]}

ThreadInit(w) ==
    /\ ~ProcessExited
    /\ pc[w] = "start"
    /\ \E v \in InitMsrValues(w) :
         /\ hwpf_msr_value' = [hwpf_msr_value EXCEPT ![w] =
                                 IF w \in Leads THEN v ELSE @]
         /\ msr' = [msr EXCEPT ![ModuleOf(w)] = v]
    /\ msr_writers' = msr_writers \cup {w}
    /\ pc' = [pc EXCEPT ![w] = "loop"]
    /\ UNCHANGED <<iter, arrivals, published, syncflag, quitflag, tunealg,
                   hwpf_msr_dirty, mstate_arm, msr_orig, tuner_runs, applied, sigpc, mainpc, core_first, core_last>>
    /\ UNCHANGED <<kvars, xvars>>

\* while (quitflag == 0) { usleep; pmu_core_read; publish the deltas
Sample(w) ==
    /\ ~ProcessExited
    /\ pc[w] = "loop"
    /\ quitflag = 0
    /\ iter[w] < MaxTick
    /\ iter' = [iter EXCEPT ![w] = @ + 1]
    /\ published' = [published EXCEPT ![w] = iter[w] + 1]
    /\ pc' = [pc EXCEPT ![w] = "arrive"]
    /\ UNCHANGED <<arrivals, syncflag, quitflag, tunealg, hwpf_msr_dirty,
                   hwpf_msr_value, mstate_arm, msr, msr_orig, msr_writers,
                   tuner_runs, applied, sigpc, mainpc, core_first, core_last>>
    /\ UNCHANGED <<kvars, xvars>>

\* the position after the arrival: the primary waits for all, a module lead
\* waits for the release, the rest run free (their apply condition is false)
AfterArrive(w) ==
    IF w = core_first THEN "wait"
    ELSE IF CORE_IN_MODULE(w) = 0 THEN "waitrel"
    ELSE "loop"

\* atomic_fetch_add(&syncflag, 1)
Arrive(w) ==
    /\ ~ProcessExited
    /\ pc[w] = "arrive"
    /\ syncflag' = syncflag + 1
    /\ arrivals' = [arrivals EXCEPT ![w] = @ + 1]
    /\ pc' = [pc EXCEPT ![w] = AfterArrive(w)]
    /\ UNCHANGED <<iter, published, quitflag, tunealg, hwpf_msr_dirty,
                   hwpf_msr_value, mstate_arm, msr, msr_orig, msr_writers,
                   tuner_runs, applied, sigpc, mainpc, core_first, core_last>>
    /\ UNCHANGED <<kvars, xvars>>

\* while (syncflag < ACTIVE_THREADS);
AllArrived == ~(syncflag < ACTIVE_THREADS)

WaitAll ==
    /\ ~ProcessExited
    /\ pc[core_first] = "wait"
    /\ AllArrived
    /\ pc' = [pc EXCEPT ![core_first] = "tuner"]
    /\ UNCHANGED <<iter, arrivals, published, syncflag, quitflag, tunealg,
                   hwpf_msr_dirty, hwpf_msr_value, mstate_arm, msr, msr_orig,
                   msr_writers, tuner_runs, applied, sigpc, mainpc, core_first, core_last>>
    /\ UNCHANGED <<kvars, xvars>>

\* calculate_settings(): basicalg(tunealg) or mab(&mstate). The tuner picks a
\* table entry (or an arm) and marks the module leads it changes as dirty.
calculate_settings ==
    \E v \in MsrValues, D \in SUBSET Leads :
      /\ hwpf_msr_dirty' = [w \in Workers |->
                              IF w \in D THEN 1 ELSE hwpf_msr_dirty[w]]
      /\ IF tunealg = MAB
           THEN /\ mstate_arm' = v
                /\ UNCHANGED hwpf_msr_value
           ELSE /\ hwpf_msr_value' = [w \in Workers |->
                                        IF w \in D THEN v ELSE hwpf_msr_value[w]]
                /\ UNCHANGED mstate_arm

Tuner ==
    /\ ~ProcessExited
    /\ pc[core_first] = "tuner"
    /\ calculate_settings
    /\ tuner_runs' = tuner_runs + 1
    /\ pc' = [pc EXCEPT ![core_first] = "release"]
    /\ UNCHANGED <<iter, arrivals, published, syncflag, quitflag, tunealg,
                   msr, msr_orig, msr_writers, applied, sigpc, mainpc, core_first, core_last>>
    /\ UNCHANGED <<kvars, xvars>>

\* syncflag = 0; //done, release threads
Release ==
    /\ ~ProcessExited
    /\ pc[core_first] = "release"
    /\ syncflag' = 0
    /\ pc' = [pc EXCEPT ![core_first] = "apply"]
    /\ UNCHANGED <<iter, arrivals, published, quitflag, tunealg,
                   hwpf_msr_dirty, hwpf_msr_value, mstate_arm, msr, msr_orig,
                   msr_writers, tuner_runs, applied, sigpc, mainpc, core_first, core_last>>
    /\ UNCHANGED <<kvars, xvars>>

\* while (syncflag != 0);
Released == ~(syncflag # 0)

WaitRelease(w) ==
    /\ ~ProcessExited
    /\ pc[w] = "waitrel"
    /\ Released
    /\ pc' = [pc EXCEPT ![w] = "apply"]
    /\ UNCHANGED <<iter, arrivals, published, syncflag, quitflag, tunealg,
                   hwpf_msr_dirty, hwpf_msr_value, mstate_arm, msr, msr_orig,
                   msr_writers, tuner_runs, applied, sigpc, mainpc, core_first, core_last>>
    /\ UNCHANGED <<kvars, xvars>>

\* if (CORE_IN_MODULE == 0 && tstate->hwpf_msr_dirty == 1)
ApplyCheck(w) ==
    /\ ~ProcessExited
    /\ pc[w] = "apply"
    /\ pc' = [pc EXCEPT ![w] =
                IF CORE_IN_MODULE(w) = 0 /\ hwpf_msr_dirty[w] = 1
                  THEN "apply_clear" ELSE "loop"]
    /\ UNCHANGED <<iter, arrivals, published, syncflag, quitflag, tunealg,
                   hwpf_msr_dirty, hwpf_msr_value, mstate_arm, msr, msr_orig,
                   msr_writers, tuner_runs, applied, sigpc, mainpc, core_first, core_last>>
    /\ UNCHANGED <<kvars, xvars>>

\* tstate->hwpf_msr_dirty = 0;
ApplyClear(w) ==
    /\ ~ProcessExited
    /\ pc[w] = "apply_clear"
    /\ hwpf_msr_dirty' = [hwpf_msr_dirty EXCEPT ![w] = 0]
    /\ applied' = [applied EXCEPT ![w] = iter[w]]
    /\ pc' = [pc EXCEPT ![w] = "apply_write"]
    /\ UNCHANGED <<iter, arrivals, published, syncflag, quitflag, tunealg,
                   hwpf_msr_value, mstate_arm, msr, msr_orig, msr_writers,
                   tuner_runs, sigpc, mainpc, core_first, core_last>>
    /\ UNCHANGED <<kvars, xvars>>

\* msr_hwpf_write(msr_file, ...) of the apply phase
ApplyValue(w) ==
    IF tunealg = MAB THEN arms_hwpf_msr_values[mstate_arm]
    ELSE hwpf_msr_value[w]

ApplyWrite(w) ==
    /\ ~ProcessExited
    /\ pc[w] = "apply_write"
    /\ msr' = [msr EXCEPT ![ModuleOf(w)] = ApplyValue(w)]
    /\ msr_writers' = msr_writers \cup {w}
    /\ pc' = [pc EXCEPT ![w] = "loop"]
    /\ UNCHANGED <<iter, arrivals, published, syncflag, quitflag, tunealg,
                   hwpf_msr_dirty, hwpf_msr_value, mstate_arm, msr_orig,
                   tuner_runs, applied, sigpc, mainpc, core_first, core_last>>
    /\ UNCHANGED <<kvars, xvars>>

\* the loop condition fails: close(msr_file); return 0;
ThreadExit(w) ==
    /\ ~ProcessExited
    /\ pc[w] = "loop"
    /\ quitflag # 0
    /\ pc' = [pc EXCEPT ![w] = "done"]
    /\ UNCHANGED <<iter, arrivals, published, syncflag, quitflag, tunealg,
                   hwpf_msr_dirty, hwpf_msr_value, mstate_arm, msr, msr_orig,
                   msr_writers, tuner_runs, applied, sigpc, mainpc, core_first, core_last>>
    /\ UNCHANGED <<kvars, xvars>>

----------------------------------------------------------------------------
(* sigintHandler and main *)

\* sigintHandler up to quitflag = 1;
SigintSet ==
    /\ ~ProcessExited
    /\ sigpc = "none"
    /\ quitflag' = 1
    /\ sigpc' = "handler"
    /\ UNCHANGED <<pc, iter, arrivals, published, syncflag, tunealg,
                   hwpf_msr_dirty, hwpf_msr_value, mstate_arm, msr, msr_orig,
                   msr_writers, tuner_runs, applied, mainpc, core_first, core_last>>
    /\ UNCHANGED <<kvars, xvars>>

\* rdt_mbm_reset(); exit(1);
SigintExit ==
    /\ ~ProcessExited
    /\ sigpc = "handler"
    /\ sigpc' = "exited"
    /\ UNCHANGED <<pc, iter, arrivals, published, syncflag, quitflag, tunealg,
                   hwpf_msr_dirty, hwpf_msr_value, mstate_arm, msr, msr_orig,
                   msr_writers, tuner_runs, applied, mainpc, core_first, core_last>>
    /\ UNCHANGED <<kvars, xvars>>

\* pthread_join(gtinfo[0].thread_id, &ret); ... return 0;
MainJoin ==
    /\ ~ProcessExited
    /\ mainpc = "join"
    /\ pc[core_first] = "done"
    /\ mainpc' = "exited"
    /\ UNCHANGED <<pc, iter, arrivals, published, syncflag, quitflag, tunealg,
                   hwpf_msr_dirty, hwpf_msr_value, mstate_arm, msr, msr_orig,
                   msr_writers, tuner_runs, applied, sigpc, core_first, core_last>>
    /\ UNCHANGED <<kvars, xvars>>

----------------------------------------------------------------------------
(* Kernel module: the pseudo-file protocol *)

(* Bounds of the model *)

\* concurrent callers of the pseudo-file
NumCallers == 2
\* addresses kmalloc can return
MaxBufs == 2
\* largest bandwidth a DDRBW_SET request carries
MaxBw == 1
\* entries of corestate[] (MAX_NUM_CORES of kernel_common.h, kept small)
MAX_NUM_CORES == 2

(* Program constants. The header file that sets MAX_MSG_SIZE and the layout of
   struct dpf_msg_header { u32 type; u32 payload_size } is kernel_common.h;
   only their role as thresholds matters here. *)

PROC_BUFFER_SIZE == 1024
HEADER_SIZE == 8
MAX_MSG_SIZE == 4096

Errno == [EINVAL |-> 22, EFAULT |-> 14, ENOMEM |-> 12]

NULL == 0
Callers == 1 .. NumCallers
Addrs == 1 .. MaxBufs
Cores == 0 .. (MAX_NUM_CORES - 1)

\* requests: the header's type and the payload fields the handlers read
\* (core ranges over ranges, core ids over ids)
MsgsOver(ranges, ids) ==
    [type : {"INIT", "UNKNOWN"}, arg : {<<0, 0>>}]
      \cup [type : {"CORE_RANGE"}, arg : ranges]
      \cup [type : {"CORE_WEIGHT"}, arg : {<<1, 0>>}]
      \cup [type : {"TUNING"}, arg : (0 .. 1) \X {0}]
      \cup [type : {"DDRBW_SET"}, arg : (1 .. MaxBw) \X {0}]
      \cup [type : {"PMU_READ", "MSR_READ"}, arg : ids \X {0}]

\* the requests the callers of the pseudo-file send: core 0 is switched on
\* and off, core ids name an enabled, a disabled and an invalid core
Msgs == MsgsOver({<<0, 0>>, <<1, 0>>}, {0, MAX_NUM_CORES - 1, MAX_NUM_CORES})

NoResp == [type |-> "NONE", arg |-> <<0, 0>>]
Free == [type |-> "FREE", arg |-> <<0, 0>>]
Uninit == [type |-> "UNINIT", arg |-> <<0, 0>>]
Freed == [type |-> "FREED", arg |-> <<0, 0>>]
NoData == [resp |-> NoResp, n |-> 0]
NoCall == [op |-> "none", pos |-> 0, count |-> 0]

\* sizeof(struct dpf_resp_*): header plus the response's fields
RespSize(r) ==
    CASE r.type = "INIT" -> HEADER_SIZE + 4
      [] r.type = "CORE_RANGE" -> HEADER_SIZE + 12
      [] r.type = "CORE_WEIGHT" -> HEADER_SIZE + 4 + 4 * r.arg[1]
      [] r.type = "TUNING" -> HEADER_SIZE + 4
      [] r.type = "DDRBW_SET" -> HEADER_SIZE + 4
      [] r.type = "PMU_READ" -> HEADER_SIZE + 56
      [] r.type = "MSR_READ" -> HEADER_SIZE + 48
      [] OTHER -> 0

WriteCounts == {HEADER_SIZE - 1, MAX_MSG_SIZE, MAX_MSG_SIZE + 1}
ReadCounts == {0, PROC_BUFFER_SIZE}

WriteStates == {"wr_check", "wr_lock", "wr_free", "wr_null", "wr_handle",
                "wr_pubptr", "wr_pubsize"}
NoWriteInProgress == \A q \in Callers : kpc[q] \notin WriteStates

\* kfree(a): the address is free again; a reader that holds it now holds a
\* dangling pointer
HeapFree(h, a) == [h EXCEPT ![a] = Free]
StaleAfterFree(a) ==
    [q \in Callers |->
        rd_stale[q] \/ (kpc[q] \in {"rd_size", "rd_copy"} /\ rd_ptr[q] = a)]

----------------------------------------------------------------------------
(* dpf_proc_write *)

DpfProcWriteCall(p, count) ==
    /\ kpc[p] = "idle"
    /\ kpc' = [kpc EXCEPT ![p] = "wr_check"]
    /\ kcall' = [kcall EXCEPT ![p] = [op |-> "write", pos |-> 0, count |-> count]]
    /\ kret' = [kret EXCEPT ![p] = 0]
    /\ rd_quiet' = [q \in Callers |-> FALSE]
    /\ UNCHANGED <<dpf_mutex, proc_buffer, proc_buffer_size, heap, core_disabled,
                   k_ddr_bw_target, keep_running, timer_armed, wr_resp, rd_ptr,
                   rd_size, rd_data, rd_stale, last_ok,
                   tuning_req>>
    /\ UNCHANGED <<uvars, xvars>>

\* the size check without its upper limit
SizeRejectedNoCap(count) == count < HEADER_SIZE

\* if (count < sizeof(struct dpf_msg_header) || count > MAX_MSG_SIZE)
SizeRejected(count) == count < HEADER_SIZE \/ count > MAX_MSG_SIZE

WrCheck(p) ==
    /\ kpc[p] = "wr_check"
    /\ IF SizeRejected(kcall[p].count)
         THEN /\ kret' = [kret EXCEPT ![p] = -Errno.EINVAL]
              /\ kpc' = [kpc EXCEPT ![p] = "idle"]
         ELSE /\ kpc' = [kpc EXCEPT ![p] = "wr_lock"]
              /\ UNCHANGED kret
    /\ UNCHANGED <<kcall, dpf_mutex, proc_buffer, proc_buffer_size, heap,
                   core_disabled, k_ddr_bw_target, keep_running, timer_armed,
                   wr_resp, rd_ptr, rd_size, rd_data, rd_stale, rd_quiet, last_ok,
                   tuning_req>>
    /\ UNCHANGED <<uvars, xvars>>

\* mutex_lock(&dpf_mutex);
WrLock(p) ==
    /\ kpc[p] = "wr_lock"
    /\ dpf_mutex = 0
    /\ dpf_mutex' = p
    /\ kpc' = [kpc EXCEPT ![p] = "wr_free"]
    /\ UNCHANGED <<kcall, kret, proc_buffer, proc_buffer_size, heap,
                   core_disabled, k_ddr_bw_target, keep_running, timer_armed,
                   wr_resp, rd_ptr, rd_size, rd_data, rd_stale, rd_quiet, last_ok,
                   tuning_req>>
    /\ UNCHANGED <<uvars, xvars>>

\* if (proc_buffer) { kfree(proc_buffer);
WrFree(p) ==
    /\ kpc[p] = "wr_free"
    /\ IF proc_buffer # NULL
         THEN /\ heap' = HeapFree(heap, proc_buffer)
              /\ rd_stale' = StaleAfterFree(proc_buffer)
              /\ kpc' = [kpc EXCEPT ![p] = "wr_null"]
         ELSE /\ kpc' = [kpc EXCEPT ![p] = "wr_handle"]
              /\ UNCHANGED <<heap, rd_stale>>
    /\ UNCHANGED <<kcall, kret, dpf_mutex, proc_buffer, proc_buffer_size,
                   core_disabled, k_ddr_bw_target, keep_running, timer_armed,
                   wr_resp, rd_ptr, rd_size, rd_data, rd_quiet, last_ok,
                   tuning_req>>
    /\ UNCHANGED <<uvars, xvars>>

\* proc_buffer = NULL; proc_buffer_size = 0; }
WrNull(p) ==
    /\ kpc[p] = "wr_null"
    /\ proc_buffer' = NULL
    /\ proc_buffer_size' = 0
    /\ kpc' = [kpc EXCEPT ![p] = "wr_handle"]
    /\ UNCHANGED <<kcall, kret, dpf_mutex, heap, core_disabled, k_ddr_bw_target,
                   keep_running, timer_armed, wr_resp, rd_ptr, rd_size, rd_data,
                   rd_stale, rd_quiet, last_ok,
                   tuning_req>>
    /\ UNCHANGED <<uvars, xvars>>

\* an error return of dpf_proc_write: mutex_unlock(&dpf_mutex); return ret;
WrFail(p, ret) ==
    /\ dpf_mutex' = 0
    /\ kret' = [kret EXCEPT ![p] = ret]
    /\ kpc' = [kpc EXCEPT ![p] = "idle"]
    /\ UNCHANGED <<kcall, proc_buffer, proc_buffer_size, heap, core_disabled,
                   k_ddr_bw_target, keep_running, timer_armed, wr_resp, rd_ptr,
                   rd_size, rd_data, rd_stale, rd_quiet, last_ok,
                   tuning_req>>

\* the switch's default arm, and the core_id check of handle_pmu_read and
\* handle_msr_read
HandlerRejects(m) ==
    \/ m.type = "UNKNOWN"
    \/ /\ m.type \in {"PMU_READ", "MSR_READ"}
       /\ (m.arg[1] >= MAX_NUM_CORES \/ core_disabled[m.arg[1]])

\* no TUNING request was handled yet
NoTuning == -1

\* handle_tuning: if (req->enable == 1)
TuningEnablesNonZero(m) == m.arg[1] # 0
TuningEnables(m) == m.arg[1] = 1

\* what the handlers change besides the response buffer. handle_tuning either
\* sets keep_running and calls hrtimer_start, or clears keep_running and calls
\* hrtimer_cancel, which returns only when no callback is running
HandlerEffects(m) ==
    /\ (m.type = "TUNING" /\ ~TuningEnables(m)) => tpc = "idle"
    /\ core_disabled' =
         IF m.type = "CORE_RANGE"
           THEN [c \in Cores |-> c < m.arg[1] \/ c > m.arg[2]]
           ELSE core_disabled
    /\ keep_running' = IF m.type = "TUNING" THEN TuningEnables(m) ELSE keep_running
    /\ timer_armed' = IF m.type = "TUNING" THEN TuningEnables(m) ELSE timer_armed
    /\ k_ddr_bw_target' = IF m.type = "DDRBW_SET" THEN m.arg[1] ELSE k_ddr_bw_target
    /\ tuning_req' = IF m.type = "TUNING" THEN m.arg[1] ELSE tuning_req

\* a handler that succeeds: resp = kmalloc(...); fill it; the side effects;
\* if (proc_buffer) kfree(proc_buffer);
HandlerBuilds(p, m) ==
    \E a \in {x \in Addrs : heap[x] = Free} :
      /\ heap' = IF proc_buffer # NULL
                   THEN [HeapFree(heap, proc_buffer) EXCEPT ![a] = m]
                   ELSE [heap EXCEPT ![a] = m]
      /\ rd_stale' = IF proc_buffer # NULL
                       THEN StaleAfterFree(proc_buffer) ELSE rd_stale
      /\ HandlerEffects(m)
      /\ wr_resp' = [wr_resp EXCEPT ![p] = a]
      /\ kpc' = [kpc EXCEPT ![p] = "wr_pubptr"]
      /\ UNCHANGED <<kcall, kret, dpf_mutex, proc_buffer, proc_buffer_size,
                     rd_ptr, rd_size, rd_data, rd_quiet, last_ok>>

\* copy_from_user(header); kmalloc(count); copy_from_user(msg_data);
\* switch (header.type) up to the handler's kfree of the old buffer
WrHandleOf(p, msgs) ==
    /\ kpc[p] = "wr_handle"
    /\ \/ \E e \in {Errno.EFAULT, Errno.ENOMEM} : WrFail(p, -e)
       \/ \E m \in msgs :
            IF HandlerRejects(m) THEN WrFail(p, -Errno.EINVAL)
            ELSE HandlerBuilds(p, m)
    /\ UNCHANGED <<uvars, xvars>>

WrHandle(p) == WrHandleOf(p, Msgs)

\* proc_buffer = (char *)resp;
WrPubPtr(p) ==
    /\ kpc[p] = "wr_pubptr"
    /\ proc_buffer' = wr_resp[p]
    /\ kpc' = [kpc EXCEPT ![p] = "wr_pubsize"]
    /\ UNCHANGED <<kcall, kret, dpf_mutex, proc_buffer_size, heap, core_disabled,
                   k_ddr_bw_target, keep_running, timer_armed, wr_resp, rd_ptr,
                   rd_size, rd_data, rd_stale, rd_quiet, last_ok,
                   tuning_req>>
    /\ UNCHANGED <<uvars, xvars>>

\* proc_buffer_size = sizeof(...); return 0; kfree(msg_data);
\* mutex_unlock(&dpf_mutex); return count;
WrPubSize(p) ==
    /\ kpc[p] = "wr_pubsize"
    /\ proc_buffer_size' = RespSize(heap[wr_resp[p]])
    /\ last_ok' = heap[wr_resp[p]]
    /\ dpf_mutex' = 0
    /\ kret' = [kret EXCEPT ![p] = kcall[p].count]
    /\ wr_resp' = [wr_resp EXCEPT ![p] = NULL]
    /\ kpc' = [kpc EXCEPT ![p] = "idle"]
    /\ UNCHANGED <<kcall, proc_buffer, heap, core_disabled, k_ddr_bw_target,
                   keep_running, timer_armed, rd_ptr, rd_size, rd_data, rd_stale,
                   rd_quiet, tuning_req>>
    /\ UNCHANGED <<uvars, xvars>>

----------------------------------------------------------------------------
(* proc_read *)

ProcReadCall(p, pos, count) ==
    /\ kpc[p] = "idle"
    /\ kpc' = [kpc EXCEPT ![p] = "rd_check"]
    /\ kcall' = [kcall EXCEPT ![p] = [op |-> "read", pos |-> pos, count |-> count]]
    /\ kret' = [kret EXCEPT ![p] = 0]
    /\ rd_quiet' = [rd_quiet EXCEPT ![p] = NoWriteInProgress]
    /\ UNCHANGED <<dpf_mutex, proc_buffer, proc_buffer_size, heap, core_disabled,
                   k_ddr_bw_target, keep_running, timer_armed, wr_resp, rd_ptr,
                   rd_size, rd_data, rd_stale, last_ok,
                   tuning_req>>
    /\ UNCHANGED <<uvars, xvars>>

\* if (*pos > 0 || !proc_buffer || count < proc_buffer_size) return 0;
NothingToRead(p) ==
    kcall[p].pos > 0 \/ proc_buffer = NULL \/ kcall[p].count < proc_buffer_size

RdCheck(p) ==
    /\ kpc[p] = "rd_check"
    /\ IF NothingToRead(p)
         THEN /\ kpc' = [kpc EXCEPT ![p] = "idle"]
              /\ rd_quiet' = [rd_quiet EXCEPT ![p] = FALSE]
         ELSE /\ kpc' = [kpc EXCEPT ![p] = "rd_ptr"]
              /\ UNCHANGED rd_quiet
    /\ UNCHANGED <<kcall, kret, dpf_mutex, proc_buffer, proc_buffer_size, heap,
                   core_disabled, k_ddr_bw_target, keep_running, timer_armed,
                   wr_resp, rd_ptr, rd_size, rd_data, rd_stale, last_ok,
                   tuning_req>>
    /\ UNCHANGED <<uvars, xvars>>

\* copy_to_user(buffer, proc_buffer, proc_buffer_size): the two arguments are
\* loaded one after the other, without dpf_mutex
RdLoadPtr(p) ==
    /\ kpc[p] = "rd_ptr"
    /\ rd_ptr' = [rd_ptr EXCEPT ![p] = proc_buffer]
    /\ kpc' = [kpc EXCEPT ![p] = "rd_size"]
    /\ UNCHANGED <<kcall, kret, dpf_mutex, proc_buffer, proc_buffer_size, heap,
                   core_disabled, k_ddr_bw_target, keep_running, timer_armed,
                   wr_resp, rd_size, rd_data, rd_stale, rd_quiet, last_ok,
                   tuning_req>>
    /\ UNCHANGED <<uvars, xvars>>

RdLoadSize(p) ==
    /\ kpc[p] = "rd_size"
    /\ rd_size' = [rd_size EXCEPT ![p] = proc_buffer_size]
    /\ kpc' = [kpc EXCEPT ![p] = "rd_copy"]
    /\ UNCHANGED <<kcall, kret, dpf_mutex, proc_buffer, proc_buffer_size, heap,
                   core_disabled, k_ddr_bw_target, keep_running, timer_armed,
                   wr_resp, rd_ptr, rd_data, rd_stale, rd_quiet, last_ok,
                   tuning_req>>
    /\ UNCHANGED <<uvars, xvars>>

\* the bytes copy_to_user reads: rd_size bytes at rd_ptr
Copied(p) ==
    IF rd_size[p] = 0 THEN NoData
    ELSE IF rd_ptr[p] = NULL \/ rd_stale[p] \/ heap[rd_ptr[p]] = Free
      THEN [resp |-> Freed, n |-> rd_size[p]]
    ELSE [resp |-> heap[rd_ptr[p]], n |-> rd_size[p]]

ReadLocalsReset(p) ==
    /\ rd_ptr' = [rd_ptr EXCEPT ![p] = NULL]
    /\ rd_size' = [rd_size EXCEPT ![p] = 0]
    /\ rd_data' = [rd_data EXCEPT ![p] = NoData]
    /\ rd_stale' = [rd_stale EXCEPT ![p] = FALSE]
    /\ rd_quiet' = [rd_quiet EXCEPT ![p] = FALSE]

RdCopy(p) ==
    /\ kpc[p] = "rd_copy"
    /\ \/ /\ rd_data' = [rd_data EXCEPT ![p] = Copied(p)]
          /\ kpc' = [kpc EXCEPT ![p] = "rd_ret"]
          /\ UNCHANGED <<kret, rd_ptr, rd_size, rd_stale, rd_quiet>>
       \/ \* copy_to_user fails: return -EFAULT;
          /\ kret' = [kret EXCEPT ![p] = -Errno.EFAULT]
          /\ kpc' = [kpc EXCEPT ![p] = "idle"]
          /\ ReadLocalsReset(p)
    /\ UNCHANGED <<kcall, dpf_mutex, proc_buffer, proc_buffer_size, heap,
                   core_disabled, k_ddr_bw_target, keep_running, timer_armed,
                   wr_resp, last_ok,
                   tuning_req>>
    /\ UNCHANGED <<uvars, xvars>>

\* *pos = proc_buffer_size; return proc_buffer_size;
RdRet(p) ==
    /\ kpc[p] = "rd_ret"
    /\ kret' = [kret EXCEPT ![p] = proc_buffer_size]
    /\ kpc' = [kpc EXCEPT ![p] = "idle"]
    /\ ReadLocalsReset(p)
    /\ UNCHANGED <<kcall, dpf_mutex, proc_buffer, proc_buffer_size, heap,
                   core_disabled, k_ddr_bw_target, keep_running, timer_armed,
                   wr_resp, last_ok,
                   tuning_req>>
    /\ UNCHANGED <<uvars, xvars>>

----------------------------------------------------------------------------
(* monitor_callback, the hrtimer callback of the kernel module. It runs in
   interrupt context and takes no lock; the /proc write handlers run on other
   CPUs meanwhile. *)

\* callbacks followed
MaxCallbacks == 2

\* the first core of the tuned range, and a core's place in its 4-core module
FIRST_CORE == 0
K_CORE_IN_MODULE(c) == (c - FIRST_CORE) % MODULE_SIZE

\* for_each_online_cpu: every core is online
OnlineCpus == Cores

\* the requests of a process that configures the tuning: the core range is
\* set to core 0, to every core, and to no core, and tuning is switched with
\* enable 0, 1 and 2
TimerMsgs ==
    [type : {"CORE_RANGE"},
     arg : {<<0, 0>>, <<0, MAX_NUM_CORES - 1>>, <<1, 0>>}]
      \cup [type : {"TUNING"}, arg : (0 .. 2) \X {0}]

\* the callback is not running
TimerIdle ==
    /\ tpc = "idle"
    /\ t_core = 0
    /\ msr_dirty = [c \in Cores |-> FALSE]
    /\ pmu_updated = {}
    /\ callbacks = 0

TimerUnchanged ==
    UNCHANGED <<kpc, kcall, kret, dpf_mutex, proc_buffer, proc_buffer_size,
                heap, core_disabled, k_ddr_bw_target, keep_running, wr_resp,
                rd_ptr, rd_size, rd_data, rd_stale, rd_quiet, last_ok,
                   tuning_req>>

\* the timer expires and is taken off the timer queue: if (!keep_running)
\* return HRTIMER_NORESTART; else the loop over the online cores starts
TimerFire ==
    /\ tpc = "idle"
    /\ timer_armed
    /\ callbacks < MaxCallbacks
    /\ callbacks' = callbacks + 1
    /\ pmu_updated' = {}
    /\ timer_armed' = FALSE
    /\ IF ~keep_running
         THEN UNCHANGED <<tpc, t_core>>
         ELSE /\ tpc' = "check"
              /\ t_core' = 0
    /\ UNCHANGED msr_dirty
    /\ TimerUnchanged
    /\ UNCHANGED <<uvars, svars, dvars, bvars, mvars, avars>>

\* the loop head and if (corestate[core_id].core_disabled == 0); after the
\* last core hrtimer_forward_now and return HRTIMER_RESTART
TimerCheck ==
    /\ tpc = "check"
    /\ IF t_core \notin OnlineCpus
         THEN /\ tpc' = "idle"
              /\ timer_armed' = TRUE
              /\ UNCHANGED t_core
         ELSE IF core_disabled[t_core] = FALSE
           THEN /\ tpc' = "pmu"
                /\ UNCHANGED <<t_core, timer_armed>>
           ELSE /\ t_core' = t_core + 1
                /\ UNCHANGED <<tpc, timer_armed>>
    /\ UNCHANGED <<msr_dirty, pmu_updated, callbacks>>
    /\ TimerUnchanged
    /\ UNCHANGED <<uvars, svars, dvars, bvars, mvars, avars>>

\* pmu_update(core_id); if (core_id == FIRST_CORE)
TimerPmuUpdate ==
    /\ tpc = "pmu"
    /\ pmu_updated' = pmu_updated \cup {t_core}
    /\ tpc' = IF t_core = FIRST_CORE THEN "alg" ELSE "msrcheck"
    /\ UNCHANGED <<t_core, msr_dirty, callbacks, timer_armed>>
    /\ TimerUnchanged
    /\ UNCHANGED <<uvars, svars, dvars, bvars, mvars, avars>>

\* kernel_basicalg(0): the tuner reads the cores' counters and marks the MSR
\* images it changes as dirty
kernel_basicalg ==
    /\ tpc = "alg"
    /\ \E D \in SUBSET Cores :
         msr_dirty' = [c \in Cores |-> msr_dirty[c] \/ c \in D]
    /\ tpc' = "msrcheck"
    /\ UNCHANGED <<t_core, pmu_updated, callbacks, timer_armed>>
    /\ TimerUnchanged
    /\ UNCHANGED <<uvars, svars, dvars, bvars, mvars, avars>>

\* if (CORE_IN_MODULE == 0 && is_msr_dirty(core_id) == 1)
TimerMsrCheck ==
    /\ tpc = "msrcheck"
    /\ IF K_CORE_IN_MODULE(t_core) = 0 /\ msr_dirty[t_core]
         THEN /\ tpc' = "msr"
              /\ UNCHANGED t_core
         ELSE /\ tpc' = "check"
              /\ t_core' = t_core + 1
    /\ UNCHANGED <<msr_dirty, pmu_updated, callbacks, timer_armed>>
    /\ TimerUnchanged
    /\ UNCHANGED <<uvars, svars, dvars, bvars, mvars, avars>>

\* msr_update(core_id): the MSR is written and its image is clean again
TimerMsrUpdate ==
    /\ tpc = "msr"
    /\ msr_dirty' = [msr_dirty EXCEPT ![t_core] = FALSE]
    /\ tpc' = "check"
    /\ t_core' = t_core + 1
    /\ UNCHANGED <<pmu_updated, callbacks, timer_armed>>
    /\ TimerUnchanged
    /\ UNCHANGED <<uvars, svars, dvars, bvars, mvars, avars>>

----------------------------------------------------------------------------
(* The C library calls main and parse_weights make. A C string is the
   sequence of its characters. *)

\* largest number of options on a command line
MaxArgs == 2

Limb == 65536
DigitChars == <<"0", "1", "2", "3", "4", "5", "6", "7", "8", "9">>
IsDigit(c) == \E d \in 1 .. 10 : DigitChars[d] = c
DigitVal(c) == (CHOOSE d \in 1 .. 10 : DigitChars[d] = c) - 1
IsSpace(c) == c = " "

\* a magnitude of up to 64 bits as four 16-bit limbs, least significant
\* first, with the carry out of bit 63
ZeroMag == [l |-> <<0, 0, 0, 0>>, over |-> FALSE]

\* m * 10 + d
MulAdd(m, d) ==
    LET t0 == m.l[1] * 10 + d
        t1 == m.l[2] * 10 + t0 \div Limb
        t2 == m.l[3] * 10 + t1 \div Limb
        t3 == m.l[4] * 10 + t2 \div Limb
    IN  [l |-> <<t0 % Limb, t1 % Limb, t2 % Limb, t3 % Limb>>,
         over |-> m.over \/ t3 \div Limb > 0]

RECURSIVE DigitRun(_, _)
\* the digits at the head of s accumulated onto m, and what follows them
DigitRun(s, m) ==
    IF s # <<>> /\ IsDigit(Head(s))
      THEN DigitRun(Tail(s), MulAdd(m, DigitVal(Head(s))))
      ELSE [mag |-> m, rest |-> s]

RECURSIVE SkipSpace(_)
SkipSpace(s) == IF s # <<>> /\ IsSpace(Head(s)) THEN SkipSpace(Tail(s)) ELSE s

\* the low 32 bits <<l0, l1>> read as a C int
ToInt(l0, l1) ==
    IF l1 >= Limb \div 2 THEN (l1 - Limb) * Limb + l0 ELSE l1 * Limb + l0

\* (int)strtol(s, &endptr, 10) on an LP64 machine: white space, a sign, the
\* digits; a magnitude that does not fit a long gives LONG_MAX or LONG_MIN;
\* the conversion to int keeps the low 32 bits. rest is what endptr points at.
Strtol(s) ==
    LET t == SkipSpace(s)
        neg == t # <<>> /\ Head(t) = "-"
        u == IF t # <<>> /\ Head(t) \in {"-", "+"} THEN Tail(t) ELSE t
        r == DigitRun(u, ZeroMag)
        m == r.mag
        none == r.rest = u
        low0 == m.l[1] = 0 /\ m.l[2] = 0 /\ m.l[3] = 0
        big == IF neg
                 THEN m.over \/ m.l[4] > Limb \div 2
                        \/ (m.l[4] = Limb \div 2 /\ ~low0)
                 ELSE m.over \/ m.l[4] >= Limb \div 2
        n0 == (Limb - m.l[1]) % Limb
        n1 == (Limb - m.l[2] - (IF m.l[1] = 0 THEN 0 ELSE 1)) % Limb
    IN  IF none THEN [val |-> 0, rest |-> s]
        ELSE IF big THEN [val |-> IF neg THEN 0 ELSE -1, rest |-> r.rest]
        ELSE IF neg THEN [val |-> ToInt(n0, n1), rest |-> r.rest]
        ELSE [val |-> ToInt(m.l[1], m.l[2]), rest |-> r.rest]

RECURSIVE SkipDelim(_, _)
SkipDelim(s, d) == IF s # <<>> /\ Head(s) = d THEN SkipDelim(Tail(s), d) ELSE s

RECURSIVE UpToDelim(_, _)
UpToDelim(s, d) ==
    IF s = <<>> \/ Head(s) = d THEN <<>> ELSE <<Head(s)>> \o UpToDelim(Tail(s), d)

\* strtok(s, ","): the next token (<<>> stands for NULL: strtok returns no
\* empty token) and the rest of the string it keeps for the next call
Strtok(s) ==
    LET t == SkipDelim(s, ",")
        tok == UpToDelim(t, ",")
        after == SubSeq(t, Len(tok) + 1, Len(t))
    IN  [token |-> tok,
         rest |-> IF after = <<>> THEN <<>> ELSE Tail(after)]

RECURSIVE HasChar(_, _)
\* strstr(s, c) != NULL
HasChar(s, c) == s # <<>> /\ (Head(s) = c \/ HasChar(Tail(s), c))

RECURSIVE AfterFirst(_, _)
\* strstr(s, c) + 1
AfterFirst(s, c) ==
    IF s = <<>> THEN <<>>
    ELSE IF Head(s) = c THEN Tail(s)
    ELSE AfterFirst(Tail(s), c)

----------------------------------------------------------------------------
(* thread_start: the counter deltas of one thread. A uint64_t is four 16-bit
   limbs, least significant first. *)

\* largest raw counter reading
MaxCount == 2

U64(n) == <<n % Limb, (n \div Limb) % Limb, 0, 0>>
U64Max == <<Limb - 1, Limb - 1, Limb - 1, Limb - 1>>

\* a - b of two uint64_t: the subtraction wraps modulo 2^64
Sub64(a, b) ==
    LET d1 == a[1] - b[1]
        d2 == a[2] - b[2] - (IF d1 < 0 THEN 1 ELSE 0)
        d3 == a[3] - b[3] - (IF d2 < 0 THEN 1 ELSE 0)
        d4 == a[4] - b[4] - (IF d3 < 0 THEN 1 ELSE 0)
    IN  <<(d1 + Limb) % Limb, (d2 + Limb) % Limb, (d3 + Limb) % Limb,
          (d4 + Limb) % Limb>>

\* a < b of two uint64_t
Less64(a, b) ==
    \E i \in 1 .. 4 : a[i] < b[i] /\ \A j \in (i + 1) .. 4 : a[j] = b[j]

\* what pmu_core_read can store: the raw value of a counter
CounterReadings == {U64(n) : n \in 0 .. MaxCount}

\* what an uninitialised uint64_t on the stack can hold
StackGarbage == {U64(0), U64(1), U64Max}

\* the thread's locals and its thread_state when the thread starts
ThreadLocals ==
    /\ pmu_old \in StackGarbage
    /\ pmu_new \in StackGarbage
    /\ pmu_result = U64(0)
    /\ instructions_old = U64(0)
    /\ instructions_new = U64(0)
    /\ instructions_retired = U64(0)
    /\ old_set = FALSE
    /\ dpc = "sleep"
    /\ dtick = 0

\* the thread's sample phase is not followed
NoSampling ==
    /\ pmu_old = U64(0)
    /\ pmu_new = U64(0)
    /\ pmu_result = U64(0)
    /\ instructions_old = U64(0)
    /\ instructions_new = U64(0)
    /\ instructions_retired = U64(0)
    /\ old_set = FALSE
    /\ dpc = "off"
    /\ dtick = 0

\* pmu_old[i] = pmu_new[i], or instructions_old = instructions_new under MAB
CopyOld ==
    /\ dpc = "sleep"
    /\ dtick < MaxTick
    /\ IF tunealg # MAB
         THEN /\ pmu_old' = pmu_new
              /\ old_set' = (dtick > 0)
              /\ UNCHANGED instructions_old
         ELSE /\ instructions_old' = instructions_new
              /\ old_set' = TRUE
              /\ UNCHANGED pmu_old
    /\ dpc' = "read"
    /\ UNCHANGED <<pmu_new, pmu_result, instructions_new, instructions_retired,
                   dtick>>
    /\ UNCHANGED <<uvars, kvars, svars, bvars, mvars, tvars, avars>>

\* pmu_core_read(msr_file, pmu_new, &instructions_new, &cpu_cycles_new)
PmuCoreRead ==
    /\ dpc = "read"
    /\ pmu_new' \in CounterReadings
    /\ instructions_new' \in CounterReadings
    /\ dpc' = "sub"
    /\ UNCHANGED <<pmu_old, pmu_result, instructions_old, instructions_retired,
                   old_set, dtick>>
    /\ UNCHANGED <<uvars, kvars, svars, bvars, mvars, tvars, avars>>

\* tstate->pmu_result[i] = pmu_new[i] - pmu_old[i], or
\* tstate->instructions_retired = instructions_new - instructions_old
PublishDelta ==
    /\ dpc = "sub"
    /\ IF tunealg # MAB
         THEN /\ pmu_result' = Sub64(pmu_new, pmu_old)
              /\ UNCHANGED instructions_retired
         ELSE /\ instructions_retired' = Sub64(instructions_new, instructions_old)
              /\ UNCHANGED pmu_result
    /\ dtick' = dtick + 1
    /\ dpc' = "sleep"
    /\ UNCHANGED <<pmu_old, pmu_new, instructions_old, instructions_new, old_set>>
    /\ UNCHANGED <<uvars, kvars, svars, bvars, mvars, tvars, avars>>

----------------------------------------------------------------------------
(* basicalg, the tuner that calculate_settings calls for tunealg 0: each tick
   it compares the observed bandwidth with ddr_bw_target and moves every
   module one step along a fixed table of prefetcher-MSR values. *)

\* index of the most aggressive table entry
MaxLevel == 2
\* largest bandwidth observed, and decisions followed
MaxBandwidth == 6
MaxDecisions == 5

threshold_up == 1
threshold_down == 1
\* the table, from the most conservative to the most aggressive value
table == [l \in 0 .. MaxLevel |-> l]

\* headroom = ddr_bw_target - bw, compared with threshold x aggr (aggr in tenths)
headroom(b) == ddr_bw_target - b
FarBelowTarget(b) == headroom(b) * 10 > threshold_up * aggr
FarAboveTarget(b) == headroom(b) * 10 < -(threshold_down * aggr)

\* the level step with its two directions exchanged
NextLevelInverted(l, b) ==
    IF FarBelowTarget(b) THEN (IF l - 1 > 0 THEN l - 1 ELSE 0)
    ELSE IF FarAboveTarget(b) THEN (IF l + 1 < MaxLevel THEN l + 1 ELSE MaxLevel)
    ELSE l

\* level <- min(level + 1, max_level), max(level - 1, 0), or unchanged
NextLevel(l, b) ==
    IF FarBelowTarget(b) THEN (IF l + 1 < MaxLevel THEN l + 1 ELSE MaxLevel)
    ELSE IF FarAboveTarget(b) THEN (IF l - 1 > 0 THEN l - 1 ELSE 0)
    ELSE l

\* the tuner is not followed
NoBasicTuner ==
    /\ level = <<>>
    /\ bw = 0
    /\ prev_level = <<>>
    /\ over_ticks = 0
    /\ slack_ticks = 0
    /\ btick = 0

\* one decision of basicalg with the bandwidth b: the new level of every
\* module; where it changed, the lead's desired MSR value and its dirty flag
basicalg ==
    /\ btick < MaxDecisions
    /\ \E b \in 0 .. MaxBandwidth :
         /\ bw' = b
         /\ level' = [m \in Modules |-> NextLevel(level[m], b)]
         /\ over_ticks' = IF FarAboveTarget(b) THEN over_ticks + 1 ELSE 0
         /\ slack_ticks' = IF FarBelowTarget(b) THEN slack_ticks + 1 ELSE 0
    /\ prev_level' = level
    /\ hwpf_msr_value' =
         [w \in Workers |->
            IF w \in Leads /\ level'[ModuleOf(w)] # level[ModuleOf(w)]
              THEN table[level'[ModuleOf(w)]] ELSE hwpf_msr_value[w]]
    /\ hwpf_msr_dirty' =
         [w \in Workers |->
            IF w \in Leads /\ level'[ModuleOf(w)] # level[ModuleOf(w)]
              THEN 1 ELSE hwpf_msr_dirty[w]]
    /\ btick' = btick + 1
    /\ UNCHANGED <<pc, iter, arrivals, published, syncflag, quitflag, tunealg,
                   mstate_arm, msr, msr_orig, msr_writers, tuner_runs, applied,
                   sigpc, mainpc, core_first, core_last>>
    /\ UNCHANGED <<kvars, svars, dvars, mvars, tvars, avars>>

----------------------------------------------------------------------------
(* mab, the tuner that calculate_settings calls for tunealg MAB: a UCB1 bandit
   over the arms, each arm a prefetcher-MSR value. *)

\* largest reward (IPC) of a tick
MaxReward == 1

\* UCB is used under this condition with one pull of any arm being enough
SomeArmTried == \E a \in Arms : trials[a] >= 1

\* every arm has been played at least once
AllArmsTried == \A a \in Arms : trials[a] >= 1

\* the arm of the initialisation: the arms in their order, one per tick
RoundRobinArm == Len(pulls) % Cardinality(Arms)

\* the arms that can maximise mean_reward[a] + c * sqrt(ln(total) / trials[a]):
\* rewards and c are real numbers, so any arm can hold the maximum
UcbArms == Arms

\* the tuner is not followed
NoMab ==
    /\ trials = <<>>
    /\ reward_sum = <<>>
    /\ selection = "none"
    /\ pulls = <<>>

\* mab_init(&mstate, ACTIVE_THREADS)
mab_init ==
    /\ trials = [a \in Arms |-> 0]
    /\ reward_sum = [a \in Arms |-> 0]
    /\ selection = "none"
    /\ pulls = <<>>

\* one tick of mab: the reward of the arm played in the last interval is
\* recorded, the next arm is chosen, and the leads whose MSR value differs
\* from the arm's are marked dirty
mab ==
    /\ Len(pulls) < MaxDecisions
    /\ \E r \in 0 .. MaxReward :
         /\ trials' = IF pulls = <<>> THEN trials
                      ELSE [trials EXCEPT ![mstate_arm] = @ + 1]
         /\ reward_sum' = IF pulls = <<>> THEN reward_sum
                          ELSE [reward_sum EXCEPT ![mstate_arm] = @ + r]
    /\ \E a \in Arms :
         /\ IF AllArmsTried'
              THEN a \in UcbArms /\ selection' = "ucb"
              ELSE a = RoundRobinArm /\ selection' = "round_robin"
         /\ mstate_arm' = a
         /\ pulls' = Append(pulls, a)
         /\ hwpf_msr_dirty' =
              [w \in Workers |->
                 IF w \in Leads /\ hwpf_msr_value[w] # arms_hwpf_msr_values[a]
                   THEN 1 ELSE hwpf_msr_dirty[w]]
    /\ UNCHANGED <<pc, iter, arrivals, published, syncflag, quitflag, tunealg,
                   hwpf_msr_value, msr, msr_orig, msr_writers, tuner_runs,
                   applied, sigpc, mainpc, core_first, core_last>>
    /\ UNCHANGED <<kvars, svars, dvars, bvars, tvars, avars>>

----------------------------------------------------------------------------
(* main: the command line *)

DDR_BW_NOT_SET == -1
DDR_BW_AUTOTEST == -2
MIN_PRIORITY == 0
MAX_PRIORITY == 99
DEFAULT_PRIORITY == 50
\* entries of gtinfo[] and core_priority[] (MAX_THREADS of common.h, kept small)
MAX_THREADS == 6

NoStr == <<>>
Opt(o, str, num) == [opt |-> o, str |-> str, num |-> num]

\* the decimal numeral of a priority, and a list of them joined by commas
Numeral(v) ==
    IF v < 10 THEN <<DigitChars[v + 1]>>
    ELSE <<DigitChars[(v \div 10) + 1], DigitChars[(v % 10) + 1]>>

RECURSIVE CommaList(_)
CommaList(vs) ==
    IF vs = <<>> THEN <<>>
    ELSE IF Len(vs) = 1 THEN Numeral(vs[1])
    ELSE Numeral(vs[1]) \o <<",">> \o CommaList(Tail(vs))

\* --weight arguments: lists of valid priorities, shorter than, as long as
\* and longer than the core range
PriorityLists == {<<5>>, <<99, 10>>, <<0, 50, 99>>, <<10, 20, 30, 40>>}
\* and lists with a token that is no number, out of range, or too large
\* for an int
BadWeightArgs == {<<"x">>, <<"1", "0", "0">>, <<"5", ",", "x">>, <<"-", "1">>, <<"4", "2", "9", "4", "9", "6", "7", "2", "9", "7">>, <<"1", ",", ",", "2">>}

WeightArgs == {CommaList(vs) : vs \in PriorityLists} \cup BadWeightArgs

\* the options of a command line; numbers stand for the float arguments:
\* --ddrbw-auto in percent, --intervall in 0.0001 s, --aggr in tenths
Options ==
    {Opt("c", a, 0) : a \in {<<"0">>, <<"0", "-", "2">>, <<"0", "-", "3">>, <<"0", "-", "5">>,
                             <<"0", "-", "6">>, <<"0", "-", "7">>, <<"3", "-", "1">>}}
      \cup {Opt("d", NoStr, n) : n \in {65, 100}}
      \cup {Opt("t", NoStr, 0)}
      \cup {Opt("D", a, 0) : a \in {<<"0">>, <<"-", "1">>, <<"-", "2">>, <<"2", "0", "0", "0", "0">>}}
      \cup {Opt("i", NoStr, n) : n \in {0, 20000, 1000000}}
      \cup {Opt("A", a, 0) : a \in {<<"1">>, <<"2">>}}
      \cup {Opt("a", NoStr, n) : n \in {0, 20, 60}}
      \cup {Opt("w", a, 0) : a \in WeightArgs}
      \cup {Opt("h", NoStr, 0)}

RECURSIVE ArgLists(_)
ArgLists(n) ==
    IF n = 0 THEN {<<>>}
    ELSE ArgLists(n - 1)
           \cup {<<o>> \o l : o \in Options, l \in {x \in ArgLists(n - 1) : Len(x) = n - 1}}

\* (int)(a * pct / 100.0): the conversion of a float to int drops the fraction
FloatToInt(a, pct) ==
    IF a * pct >= 0 THEN (a * pct) \div 100 ELSE -((-(a * pct)) \div 100)

NotReturned == [done |-> FALSE, val |-> 0]
Returned(v) == [done |-> TRUE, val |-> v]
NoToken == [token |-> <<>>, rest |-> <<>>]

\* return from main
MainReturns(v) ==
    /\ mainpc' = "exited"
    /\ exit_status' = Returned(v)

\* case 'c': core_first = strtol(optarg); core_last = strtol(strstr(optarg, "-") + 1)
CoreFirstOf(a) == Strtol(a).val
CoreLastOf(a) == IF HasChar(a, "-") THEN Strtol(AfterFirst(a, "-")).val ELSE CoreFirstOf(a)
TooManyCores(a) == CoreLastOf(a) - CoreFirstOf(a) > MAX_THREADS

\* case 'i': the clamp of time_intervall
ClampIntervall(n) == IF n < 1 THEN 1 ELSE IF n > 600000 THEN 600000 ELSE n

\* one getopt_long call and the switch on what it returned
GetOpt ==
    /\ mainpc = "getopt"
    /\ IF argv = <<>>
         THEN /\ mainpc' = "cores"
              /\ UNCHANGED <<argv, exit_status, opts_seen, core_first, core_last,
                             ddr_bw_auto_utilization, ddr_bw_target,
                             time_intervall, tunealg, aggr, weight_string>>
         ELSE LET o == Head(argv) IN
              /\ argv' = Tail(argv)
              /\ opts_seen' = Append(opts_seen, o)
              /\ core_first' = IF o.opt = "c" THEN CoreFirstOf(o.str) ELSE core_first
              /\ core_last' = IF o.opt = "c" THEN CoreLastOf(o.str) ELSE core_last
              /\ ddr_bw_auto_utilization' =
                   IF o.opt = "d" THEN o.num ELSE ddr_bw_auto_utilization
              /\ ddr_bw_target' =
                   CASE o.opt = "t" -> DDR_BW_AUTOTEST
                     [] o.opt = "D" -> Strtol(o.str).val
                     [] OTHER -> ddr_bw_target
              /\ time_intervall' =
                   IF o.opt = "i" THEN ClampIntervall(o.num) ELSE time_intervall
              /\ tunealg' = IF o.opt = "A" THEN Strtol(o.str).val ELSE tunealg
              /\ aggr' = IF o.opt = "a" THEN o.num ELSE aggr
              /\ weight_string' = IF o.opt = "w" THEN o.str ELSE weight_string
              /\ IF o.opt = "h" THEN MainReturns(0)
                 ELSE IF o.opt = "c" /\ TooManyCores(o.str) THEN MainReturns(-1)
                 ELSE UNCHANGED <<mainpc, exit_status>>
    /\ UNCHANGED <<pc, iter, arrivals, published, syncflag, quitflag,
                   hwpf_msr_dirty, hwpf_msr_value, mstate_arm, msr, msr_orig,
                   msr_writers, tuner_runs, applied, sigpc>>
    /\ UNCHANGED <<core_priority, pw_tokens, core_count, pw_ret, dmi_bandwidth>>
    /\ UNCHANGED <<kvars, nvars>>

\* what get_efficient_core_ids() can return: the E-cores, or none
EfficientCores == {<<0, 3>>, <<-1, -1>>}

\* if (core_first == -1 || core_last == -1): auto-detect the E-cores
DetectCores ==
    /\ mainpc = "cores"
    /\ IF core_first = -1 \/ core_last = -1
         THEN \E e \in EfficientCores :
                /\ core_first' = e[1]
                /\ core_last' = e[2]
                /\ IF e[1] = -1 \/ e[2] = -1
                     THEN MainReturns(-1)
                     ELSE /\ mainpc' = "weights"
                          /\ UNCHANGED exit_status
         ELSE /\ mainpc' = "weights"
              /\ UNCHANGED <<core_first, core_last, exit_status>>
    /\ UNCHANGED <<pc, iter, arrivals, published, syncflag, quitflag, tunealg,
                   hwpf_msr_dirty, hwpf_msr_value, mstate_arm, msr, msr_orig,
                   msr_writers, tuner_runs, applied, sigpc>>
    /\ UNCHANGED <<argv, ddr_bw_target, ddr_bw_auto_utilization, time_intervall,
                   aggr, weight_string, core_priority, pw_tokens, core_count,
                   pw_ret, dmi_bandwidth, opts_seen>>
    /\ UNCHANGED <<kvars, nvars>>

\* if (strlen(weight_string) != 0) parse_weights(weight_string): its
\* token = strtok(weights_args, ","); else every active core gets the default
Weights ==
    /\ mainpc = "weights"
    /\ IF weight_string # <<>>
         THEN /\ pw_tokens' = Strtok(weight_string)
              /\ core_count' = 0
              /\ mainpc' = "pw_loop"
              /\ UNCHANGED core_priority
         ELSE /\ core_priority' =
                   [i \in DOMAIN core_priority |->
                      IF i < ACTIVE_THREADS THEN DEFAULT_PRIORITY
                      ELSE core_priority[i]]
              /\ mainpc' = "bw"
              /\ UNCHANGED <<pw_tokens, core_count>>
    /\ UNCHANGED <<pc, iter, arrivals, published, syncflag, quitflag, tunealg,
                   hwpf_msr_dirty, hwpf_msr_value, mstate_arm, msr, msr_orig,
                   msr_writers, tuner_runs, applied, sigpc, core_first, core_last>>
    /\ UNCHANGED <<argv, exit_status, ddr_bw_target, ddr_bw_auto_utilization,
                   time_intervall, aggr, weight_string, pw_ret, dmi_bandwidth,
                   opts_seen>>
    /\ UNCHANGED <<kvars, nvars>>

\* if (priority < MIN_PRIORITY || priority > MAX_PRIORITY)
OutOfRange(priority) == priority < MIN_PRIORITY \/ priority > MAX_PRIORITY

\* one iteration of parse_weights' while (token != NULL) loop; when
\* parse_weights returns -1 main returns -1
PwStep ==
    /\ mainpc = "pw_loop"
    /\ LET token == pw_tokens.token
           n == Strtol(token)
       IN  IF token = <<>> \/ core_count = ACTIVE_THREADS
             THEN /\ mainpc' = "pw_fill"
                  /\ UNCHANGED <<core_priority, core_count, pw_tokens, pw_ret,
                                 exit_status>>
           ELSE IF n.rest # <<>> \/ OutOfRange(n.val)
             THEN /\ pw_ret' = Returned(-1)
                  /\ MainReturns(-1)
                  /\ UNCHANGED <<core_priority, core_count, pw_tokens>>
           ELSE /\ core_priority' = [core_priority EXCEPT ![core_count] = n.val]
                /\ core_count' = core_count + 1
                /\ pw_tokens' = Strtok(pw_tokens.rest)
                /\ UNCHANGED <<mainpc, pw_ret, exit_status>>
    /\ UNCHANGED <<pc, iter, arrivals, published, syncflag, quitflag, tunealg,
                   hwpf_msr_dirty, hwpf_msr_value, mstate_arm, msr, msr_orig,
                   msr_writers, tuner_runs, applied, sigpc, core_first, core_last>>
    /\ UNCHANGED <<argv, ddr_bw_target, ddr_bw_auto_utilization, time_intervall,
                   aggr, weight_string, dmi_bandwidth, opts_seen>>
    /\ UNCHANGED <<kvars, nvars>>

\* while (core_count < ACTIVE_THREADS) core_priority[core_count++] =
\* DEFAULT_PRIORITY; return 0;
PwFill ==
    /\ mainpc = "pw_fill"
    /\ core_priority' =
         [i \in DOMAIN core_priority |->
            IF core_count <= i /\ i < ACTIVE_THREADS THEN DEFAULT_PRIORITY
            ELSE core_priority[i]]
    /\ core_count' = IF core_count < ACTIVE_THREADS THEN ACTIVE_THREADS ELSE core_count
    /\ pw_ret' = Returned(0)
    /\ mainpc' = "bw"
    /\ UNCHANGED <<pc, iter, arrivals, published, syncflag, quitflag, tunealg,
                   hwpf_msr_dirty, hwpf_msr_value, mstate_arm, msr, msr_orig,
                   msr_writers, tuner_runs, applied, sigpc, core_first, core_last>>
    /\ UNCHANGED <<argv, exit_status, ddr_bw_target, ddr_bw_auto_utilization,
                   time_intervall, aggr, weight_string, pw_tokens, dmi_bandwidth,
                   opts_seen>>
    /\ UNCHANGED <<kvars, nvars>>

\* if (ddr_bw_target == DDR_BW_NOT_SET): the target from DMI
BwTarget ==
    /\ mainpc = "bw"
    /\ IF ddr_bw_target = DDR_BW_NOT_SET
         THEN LET t == FloatToInt(dmi_bandwidth, ddr_bw_auto_utilization) IN
              /\ ddr_bw_target' = t
              /\ IF t = -1 THEN MainReturns(-1)
                 ELSE /\ mainpc' = "create"
                      /\ UNCHANGED exit_status
         ELSE /\ mainpc' = "create"
              /\ UNCHANGED <<ddr_bw_target, exit_status>>
    /\ UNCHANGED <<pc, iter, arrivals, published, syncflag, quitflag, tunealg,
                   hwpf_msr_dirty, hwpf_msr_value, mstate_arm, msr, msr_orig,
                   msr_writers, tuner_runs, applied, sigpc, core_first, core_last>>
    /\ UNCHANGED <<argv, ddr_bw_auto_utilization, time_intervall, aggr,
                   weight_string, core_priority, pw_tokens, core_count, pw_ret,
                   dmi_bandwidth, opts_seen>>
    /\ UNCHANGED <<kvars, nvars>>

\* what the owner of the memory behind core_priority[] can store there
NeighbourValues == {0, -1}

\* rdt_mbm_init() fails and main returns its error, or the DDR counters are
\* set up (stores to the globals that follow core_priority[] in memory), the
\* threads of core_first .. core_last are created and main waits in
\* pthread_join
CreateThreads ==
    /\ mainpc = "create"
    /\ \/ /\ MainReturns(-1)
          /\ UNCHANGED <<pc, iter, arrivals, published, hwpf_msr_dirty,
                         hwpf_msr_value, msr, msr_orig, applied, core_priority>>
       \/ /\ mainpc' = "join"
          /\ pc' = [w \in Workers |-> "start"]
          /\ iter' = [w \in Workers |-> 0]
          /\ arrivals' = [w \in Workers |-> 0]
          /\ published' = [w \in Workers |-> 0]
          /\ hwpf_msr_dirty' = [w \in Workers |-> 0]
          /\ hwpf_msr_value' = [w \in Workers |-> 0]
          /\ applied' = [w \in Workers |-> 0]
          /\ \E v \in MsrValues : msr' = [m \in Modules |-> v]
          /\ msr_orig' = msr'
          /\ \E v \in {core_priority[MAX_THREADS]} \cup NeighbourValues :
               core_priority' = [core_priority EXCEPT ![MAX_THREADS] = v]
          /\ UNCHANGED exit_status
    /\ UNCHANGED <<syncflag, quitflag, tunealg, mstate_arm, msr_writers,
                   tuner_runs, sigpc, core_first, core_last>>
    /\ UNCHANGED <<argv, ddr_bw_target, ddr_bw_auto_utilization, time_intervall,
                   aggr, weight_string, pw_tokens, core_count,
                   pw_ret, dmi_bandwidth, opts_seen>>
    /\ UNCHANGED <<kvars, nvars>>

\* the initial values of main's globals and locals; weight_string is not
\* initialised and holds whatever the stack held
UninitStrings == {<<>>, <<"x">>, <<"7">>}

MainGlobals ==
    /\ exit_status = NotReturned
    /\ ddr_bw_target = DDR_BW_NOT_SET
    /\ ddr_bw_auto_utilization = 70
    /\ time_intervall = 10000
    /\ aggr = 10
    /\ core_priority =
         [i \in 0 .. MAX_THREADS |-> IF i < MAX_THREADS THEN MIN_PRIORITY ELSE 0]
    /\ pw_tokens = NoToken
    /\ core_count = 0
    /\ pw_ret = NotReturned
    /\ opts_seen = <<>>

\* main is not followed: it has created the threads
MainDone ==
    /\ MainGlobals
    /\ argv = <<>>
    /\ weight_string = <<>>
    /\ dmi_bandwidth = -1

\* main is entered with a command line
MainEntered ==
    /\ MainGlobals
    /\ argv \in ArgLists(MaxArgs)
    /\ weight_string \in UninitStrings
    /\ dmi_bandwidth \in {-1, 40000}
    /\ core_first = -1
    /\ core_last = -1
    /\ tunealg = 0
    /\ mainpc = "getopt"
    /\ sigpc = "none"
    /\ pc = <<>>
    /\ iter = <<>>
    /\ arrivals = <<>>
    /\ published = <<>>
    /\ hwpf_msr_dirty = <<>>
    /\ hwpf_msr_value = <<>>
    /\ applied = <<>>
    /\ msr = <<>>
    /\ msr_orig = <<>>
    /\ msr_writers = {}
    /\ syncflag = 0
    /\ quitflag = 0
    /\ mstate_arm = 0
    /\ tuner_runs = 0

----------------------------------------------------------------------------
(* thread_start: the bandwidth self-test every thread runs before msr_init
   when main was started with the self-test option *)

\* largest value ddrmembw_measurement() returns
MaxMeasure == 2

Measurements == 0 .. MaxMeasure
NotMeasured == -1

\* the self-test is not followed
NoSelfTest ==
    /\ stpc = <<>>
    /\ ddrbwflag = 0
    /\ bw_measured = <<>>

\* the threads have been created and none has reached the block
SelfTestStart ==
    /\ stpc = [w \in Workers |-> "test"]
    /\ ddrbwflag = 0
    /\ bw_measured = [w \in Workers |-> NotMeasured]

SelfTestUnchanged ==
    UNCHANGED <<argv, ddr_bw_auto_utilization, time_intervall, aggr,
                weight_string, core_priority, pw_tokens, core_count, pw_ret,
                dmi_bandwidth, opts_seen>>

\* if (ddr_bw_target == DDR_BW_AUTOTEST) { if (tstate->core_id == core_first)
SelfTestCheck(w) ==
    /\ ~exit_status.done
    /\ stpc[w] = "test"
    /\ stpc' = [stpc EXCEPT ![w] =
                  IF ddr_bw_target = DDR_BW_AUTOTEST
                    THEN IF w = core_first THEN "init" ELSE "inc"
                    ELSE "ctl"]
    /\ UNCHANGED <<ddrbwflag, bw_measured, ddr_bw_target, exit_status>>
    /\ SelfTestUnchanged
    /\ UNCHANGED <<uvars, kvars, dvars, bvars, mvars, tvars>>

\* if (ddrmembw_init() < 0) exit(-1); ddr_bw_target = 0;
SelfTestInitBw ==
    /\ ~exit_status.done
    /\ stpc[core_first] = "init"
    /\ \/ /\ exit_status' = Returned(-1)
          /\ UNCHANGED <<stpc, ddr_bw_target>>
       \/ /\ ddr_bw_target' = 0
          /\ stpc' = [stpc EXCEPT ![core_first] = "inc"]
          /\ UNCHANGED exit_status
    /\ UNCHANGED <<ddrbwflag, bw_measured>>
    /\ SelfTestUnchanged
    /\ UNCHANGED <<uvars, kvars, dvars, bvars, mvars, tvars>>

\* atomic_fetch_add(&ddrbwflag, 1);
SelfTestArrive(w) ==
    /\ ~exit_status.done
    /\ stpc[w] = "inc"
    /\ ddrbwflag' = ddrbwflag + 1
    /\ stpc' = [stpc EXCEPT ![w] = "wait_up"]
    /\ UNCHANGED <<bw_measured, ddr_bw_target, exit_status>>
    /\ SelfTestUnchanged
    /\ UNCHANGED <<uvars, kvars, dvars, bvars, mvars, tvars>>

\* while (ddrbwflag < ACTIVE_THREADS);
AllInSelfTest == ~(ddrbwflag < ACTIVE_THREADS)

SelfTestWaitAll(w) ==
    /\ ~exit_status.done
    /\ stpc[w] = "wait_up"
    /\ AllInSelfTest
    /\ stpc' = [stpc EXCEPT ![w] = "measure"]
    /\ UNCHANGED <<ddrbwflag, bw_measured, ddr_bw_target, exit_status>>
    /\ SelfTestUnchanged
    /\ UNCHANGED <<uvars, kvars, dvars, bvars, mvars, tvars>>

\* atomic_fetch_add(&ddr_bw_target, ddrmembw_measurement());
SelfTestMeasure(w) ==
    /\ ~exit_status.done
    /\ stpc[w] = "measure"
    /\ \E m \in Measurements :
         /\ ddr_bw_target' = ddr_bw_target + m
         /\ bw_measured' = [bw_measured EXCEPT ![w] = m]
    /\ stpc' = [stpc EXCEPT ![w] = "dec"]
    /\ UNCHANGED <<ddrbwflag, exit_status>>
    /\ SelfTestUnchanged
    /\ UNCHANGED <<uvars, kvars, dvars, bvars, mvars, tvars>>

\* atomic_fetch_add(&ddrbwflag, -1);
SelfTestLeave(w) ==
    /\ ~exit_status.done
    /\ stpc[w] = "dec"
    /\ ddrbwflag' = ddrbwflag - 1
    /\ stpc' = [stpc EXCEPT ![w] = "wait_down"]
    /\ UNCHANGED <<bw_measured, ddr_bw_target, exit_status>>
    /\ SelfTestUnchanged
    /\ UNCHANGED <<uvars, kvars, dvars, bvars, mvars, tvars>>

\* while (ddrbwflag != 0); if (tstate->core_id == core_first)
AllLeftSelfTest == ~(ddrbwflag # 0)

SelfTestWaitNone(w) ==
    /\ ~exit_status.done
    /\ stpc[w] = "wait_down"
    /\ AllLeftSelfTest
    /\ stpc' = [stpc EXCEPT ![w] = IF w = core_first THEN "deinit" ELSE "ctl"]
    /\ UNCHANGED <<ddrbwflag, bw_measured, ddr_bw_target, exit_status>>
    /\ SelfTestUnchanged
    /\ UNCHANGED <<uvars, kvars, dvars, bvars, mvars, tvars>>

\* ddrmembw_deinit(); if (ddr_bw_target == 0) exit(-1);
SelfTestDeinit ==
    /\ ~exit_status.done
    /\ stpc[core_first] = "deinit"
    /\ IF ddr_bw_target = 0
         THEN /\ exit_status' = Returned(-1)
              /\ UNCHANGED stpc
         ELSE /\ stpc' = [stpc EXCEPT ![core_first] = "ctl"]
              /\ UNCHANGED exit_status
    /\ UNCHANGED <<ddrbwflag, bw_measured, ddr_bw_target>>
    /\ SelfTestUnchanged
    /\ UNCHANGED <<uvars, kvars, dvars, bvars, mvars, tvars>>

----------------------------------------------------------------------------
(* Initial states *)

\* dpf_module_init
ModuleLoaded ==
    /\ kpc = [p \in Callers |-> "idle"]
    /\ kcall = [p \in Callers |-> NoCall]
    /\ kret = [p \in Callers |-> 0]
    /\ dpf_mutex = 0
    /\ proc_buffer = 1
    /\ proc_buffer_size = 0
    /\ heap = [a \in Addrs |-> IF a = 1 THEN Uninit ELSE Free]
    /\ core_disabled = [c \in Cores |-> TRUE]
    /\ k_ddr_bw_target = 0
    /\ keep_running = FALSE
    /\ timer_armed = FALSE
    /\ wr_resp = [p \in Callers |-> NULL]
    /\ rd_ptr = [p \in Callers |-> NULL]
    /\ rd_size = [p \in Callers |-> 0]
    /\ rd_data = [p \in Callers |-> NoData]
    /\ rd_stale = [p \in Callers |-> FALSE]
    /\ rd_quiet = [p \in Callers |-> FALSE]
    /\ last_ok = NoResp
    /\ tuning_req = NoTuning

\* the state main leaves when it has created the threads of cores first .. last
Started(first, last) ==
    /\ core_first = first
    /\ core_last = last
    /\ pc = [w \in Workers |-> "start"]
    /\ iter = [w \in Workers |-> 0]
    /\ arrivals = [w \in Workers |-> 0]
    /\ published = [w \in Workers |-> 0]
    /\ syncflag = 0
    /\ quitflag = 0
    /\ tunealg \in {0, MAB}
    /\ hwpf_msr_dirty = [w \in Workers |-> 0]
    /\ hwpf_msr_value = [w \in Workers |-> 0]
    /\ mstate_arm = 0
    /\ msr \in [Modules -> MsrValues]
    /\ msr_orig = msr
    /\ msr_writers = {}
    /\ tuner_runs = 0
    /\ applied = [w \in Workers |-> 0]
    /\ sigpc = "none"
    /\ mainpc = "join"

\* one module, with free-running cores
Init ==
    /\ \E last \in 1 .. 2 : Started(0, last)
    /\ ModuleLoaded
    /\ MainDone
    /\ NoSampling
    /\ NoBasicTuner
    /\ NoMab
    /\ TimerIdle
    /\ NoSelfTest

\* two modules: core 4 is a module lead that is not the primary
\* (default algorithm, every module at the same boot-time MSR image)
InitModules ==
    /\ Started(0, MODULE_SIZE)
    /\ ModuleLoaded
    /\ MainDone
    /\ NoSampling
    /\ NoBasicTuner
    /\ NoMab
    /\ TimerIdle
    /\ NoSelfTest
    /\ tunealg = 0
    /\ \E v \in MsrValues : msr = [m \in Modules |-> v]

\* one module: the primary is the only module lead, so no worker reaches the
\* release wait of the other leads
Next ==
    \/ \E w \in Workers : ThreadInit(w)
    \/ \E w \in Workers : Sample(w)
    \/ \E w \in Workers : Arrive(w)
    \/ WaitAll
    \/ Tuner
    \/ Release
    \/ \E w \in Workers : ApplyCheck(w)
    \/ \E w \in Workers : ApplyClear(w)
    \/ \E w \in Workers : ApplyWrite(w)
    \/ \E w \in Workers : ThreadExit(w)
    \/ SigintSet
    \/ SigintExit
    \/ MainJoin

\* two modules, no SIGINT is delivered
NextRunning ==
    \/ \E w \in Workers : ThreadInit(w)
    \/ \E w \in Workers : Sample(w)
    \/ \E w \in Workers : Arrive(w)
    \/ WaitAll
    \/ Tuner
    \/ Release
    \/ \E w \in Workers : WaitRelease(w)
    \/ \E w \in Workers : ApplyCheck(w)
    \/ \E w \in Workers : ApplyClear(w)
    \/ \E w \in Workers : ApplyWrite(w)

Spec == Init /\ [][Next]_vars

ModSpec == InitModules /\ [][NextRunning]_vars

\* the kernel module alone: no user-space runtime is started
KInit ==
    /\ Started(0, -1)
    /\ tunealg = 0
    /\ ModuleLoaded
    /\ MainDone
    /\ NoSampling
    /\ NoBasicTuner
    /\ NoMab
    /\ TimerIdle
    /\ NoSelfTest

KNext ==
    \/ \E p \in Callers, count \in WriteCounts : DpfProcWriteCall(p, count)
    \/ \E p \in Callers : WrCheck(p)
    \/ \E p \in Callers : WrLock(p)
    \/ \E p \in Callers : WrFree(p)
    \/ \E p \in Callers : WrNull(p)
    \/ \E p \in Callers : WrHandle(p)
    \/ \E p \in Callers : WrPubPtr(p)
    \/ \E p \in Callers : WrPubSize(p)
    \/ \E p \in Callers, pos \in 0 .. 1, count \in ReadCounts : ProcReadCall(p, pos, count)
    \/ \E p \in Callers : RdCheck(p)
    \/ \E p \in Callers : RdLoadPtr(p)
    \/ \E p \in Callers : RdLoadSize(p)
    \/ \E p \in Callers : RdCopy(p)
    \/ \E p \in Callers : RdRet(p)

KSpec == KInit /\ [][KNext]_vars

\* one process configures the module through /proc while the timer runs
TimerNext ==
    \/ \E count \in {MAX_MSG_SIZE} : DpfProcWriteCall(1, count)
    \/ WrCheck(1)
    \/ WrLock(1)
    \/ WrFree(1)
    \/ WrNull(1)
    \/ WrHandleOf(1, TimerMsgs)
    \/ WrPubPtr(1)
    \/ WrPubSize(1)
    \/ TimerFire
    \/ TimerCheck
    \/ TimerPmuUpdate
    \/ kernel_basicalg
    \/ TimerMsrCheck
    \/ TimerMsrUpdate

TimerSpec == KInit /\ [][TimerNext]_vars

\* the threads of one to three cores from their creation to the control
\* loop, main having set ddr_bw_target to DDR_BW_AUTOTEST
SelfTestInit ==
    /\ \E last \in 0 .. 2 : Started(0, last)
    /\ tunealg = 0
    /\ \A m \in Modules : msr[m] = 0
    /\ ModuleLoaded
    /\ exit_status = NotReturned
    /\ ddr_bw_target = DDR_BW_AUTOTEST
    /\ ddr_bw_auto_utilization = 70
    /\ time_intervall = 10000
    /\ aggr = 10
    /\ core_priority =
         [i \in 0 .. MAX_THREADS |-> IF i < MAX_THREADS THEN MIN_PRIORITY ELSE 0]
    /\ pw_tokens = NoToken
    /\ core_count = 0
    /\ pw_ret = NotReturned
    /\ opts_seen = <<Opt("t", NoStr, 0)>>
    /\ argv = <<>>
    /\ weight_string = <<>>
    /\ dmi_bandwidth = -1
    /\ NoSampling
    /\ NoBasicTuner
    /\ NoMab
    /\ TimerIdle
    /\ SelfTestStart

SelfTestNext ==
    \/ \E w \in Workers : SelfTestCheck(w)
    \/ SelfTestInitBw
    \/ \E w \in Workers : SelfTestArrive(w)
    \/ \E w \in Workers : SelfTestWaitAll(w)
    \/ \E w \in Workers : SelfTestMeasure(w)
    \/ \E w \in Workers : SelfTestLeave(w)
    \/ \E w \in Workers : SelfTestWaitNone(w)
    \/ SelfTestDeinit

SelfTestSpec == SelfTestInit /\ [][SelfTestNext]_vars

\* the same with the progress the timer hardware gives: an armed timer
\* expires, and a callback that has started runs to its return
TimerLiveSpec ==
    /\ TimerSpec
    /\ WF_vars(TimerFire)
    /\ WF_vars(TimerCheck)
    /\ WF_vars(TimerPmuUpdate)
    /\ WF_vars(kernel_basicalg)
    /\ WF_vars(TimerMsrCheck)
    /\ WF_vars(TimerMsrUpdate)

\* main from its entry to the creation of the threads
CliInit ==
    /\ MainEntered
    /\ ModuleLoaded
    /\ NoSampling
    /\ NoBasicTuner
    /\ NoMab
    /\ TimerIdle
    /\ NoSelfTest

CliNext ==
    \/ GetOpt
    \/ DetectCores
    \/ Weights
    \/ PwStep
    \/ PwFill
    \/ BwTarget
    \/ CreateThreads

CliSpec == CliInit /\ [][CliNext]_vars

\* the sample phase of one thread, under either kind of tuner
DeltaInit ==
    /\ Started(0, 0)
    /\ tunealg \in {0, MAB}
    /\ ModuleLoaded
    /\ MainGlobals
    /\ argv = <<>>
    /\ weight_string = <<>>
    /\ dmi_bandwidth = -1
    /\ ThreadLocals
    /\ NoBasicTuner
    /\ NoMab
    /\ TimerIdle
    /\ NoSelfTest

DeltaNext ==
    \/ CopyOld
    \/ PmuCoreRead
    \/ PublishDelta

DeltaSpec == DeltaInit /\ [][DeltaNext]_vars

\* the decisions of basicalg for two modules, aggr 1.0 and a target of 3,
\* from any level
BasicInit ==
    /\ Started(0, MODULE_SIZE)
    /\ tunealg = 0
    /\ \A m \in Modules : msr[m] = 0
    /\ ModuleLoaded
    /\ exit_status = NotReturned
    /\ ddr_bw_target = 3
    /\ ddr_bw_auto_utilization = 70
    /\ time_intervall = 10000
    /\ aggr = 10
    /\ core_priority =
         [i \in 0 .. MAX_THREADS |-> IF i < MAX_THREADS THEN DEFAULT_PRIORITY ELSE 0]
    /\ pw_tokens = NoToken
    /\ core_count = 0
    /\ pw_ret = NotReturned
    /\ opts_seen = <<>>
    /\ argv = <<>>
    /\ weight_string = <<>>
    /\ dmi_bandwidth = -1
    /\ NoSampling
    /\ level \in [Modules -> 0 .. MaxLevel]
    /\ bw = 0
    /\ prev_level = level
    /\ over_ticks = 0
    /\ slack_ticks = 0
    /\ btick = 0
    /\ NoMab
    /\ TimerIdle
    /\ NoSelfTest

BasicNext == basicalg

BasicSpec == BasicInit /\ [][BasicNext]_vars

\* the decisions of mab for two modules, after mab_init
MabInit ==
    /\ Started(0, MODULE_SIZE)
    /\ tunealg = MAB
    /\ ModuleLoaded
    /\ MainDone
    /\ NoSampling
    /\ NoBasicTuner
    /\ mab_init
    /\ TimerIdle
    /\ NoSelfTest

MabNext == mab

MabSpec == MabInit /\ [][MabNext]_vars

----------------------------------------------------------------------------
(* Properties of the kernel-module protocol *)

\* C8: a read with *pos = 0 and a large enough count, during which no write
\* was in progress, returns the response of the most recent write that
\* returned success (whatever writes failed after it).
C8_ReadYieldsLastOkResponse ==
    [][\A p \in Callers :
          (/\ kcall[p].op = "read"
           /\ kpc[p] \in {"rd_check", "rd_ret"}
           /\ kpc'[p] = "idle"
           /\ rd_quiet[p]
           /\ kcall[p].pos = 0
           /\ last_ok # NoResp
           /\ kcall[p].count >= RespSize(last_ok))
          => /\ kret'[p] = RespSize(last_ok)
             /\ rd_data[p] = [resp |-> last_ok, n |-> RespSize(last_ok)]]_vars

\* C9: what a read copies to the user is nothing or one whole response: never
\* bytes of a buffer that was freed while the read held its address, and
\* never a size that belongs to another response.
C9_ReadCopiesWholeResponse ==
    \A p \in Callers :
        kpc[p] = "rd_ret" =>
            /\ rd_data[p].resp # Freed
            /\ (rd_data[p].n = 0 \/ rd_data[p].n = RespSize(rd_data[p].resp))

\* C10: a write whose count is below the header size or above MAX_MSG_SIZE
\* returns -EINVAL and leaves the response buffer, the cores' disabled
\* flags, ddr_bw_target and the timer as they were.
C10_BadSizeWriteChangesNothing ==
    [][\A p \in Callers :
          (/\ kpc[p] = "wr_check"
           /\ kpc'[p] # "wr_check"
           /\ (kcall[p].count < HEADER_SIZE \/ kcall[p].count > MAX_MSG_SIZE))
          => /\ kpc'[p] = "idle"
             /\ kret'[p] = -Errno.EINVAL
             /\ UNCHANGED <<proc_buffer, proc_buffer_size, heap, core_disabled,
                            k_ddr_bw_target, keep_running, timer_armed,
                            dpf_mutex, last_ok,
                   tuning_req>>]_vars

\* an oversized write was the last call: it returned -EINVAL, and the
\* response of the earlier TUNING request, the enabled core and the running
\* timer are still there
C10_Witness ==
    \E p \in Callers :
        /\ \A q \in Callers \ {p} : kcall[q] = NoCall
        /\ kpc[p] = "idle"
        /\ kcall[p].op = "write"
        /\ kcall[p].count > MAX_MSG_SIZE
        /\ kret[p] = -Errno.EINVAL
        /\ proc_buffer # NULL
        /\ heap[proc_buffer] = [type |-> "TUNING", arg |-> <<1, 0>>]
        /\ proc_buffer_size = RespSize(heap[proc_buffer])
        /\ ~core_disabled[0]
        /\ keep_running

----------------------------------------------------------------------------
(* Properties of the user-space control loop *)

ApplyPhase == {"apply", "apply_clear", "apply_write"}

\* C1: whenever the primary worker runs the tuner, every worker of
\* [core_first, core_last] has arrived exactly once for the primary's current
\* tick and the deltas it has published are those of that tick.
C1_TunerAfterAllSampled ==
    pc[core_first] = "tuner" =>
        \A w \in Workers : /\ arrivals[w] = iter[core_first]
                           /\ published[w] = iter[core_first]

\* C2: while the primary worker is inside the tuner, no step writes a
\* worker's per-core delta fields.
C2_NoDeltaWriteDuringTuner ==
    [][pc[core_first] = "tuner" => published' = published]_vars

\* C3: a module lead is in the apply phase of its tick t only when the tuner
\* has completed t invocations, and no other lead is in its apply phase
\* while the primary runs the tuner.
C3_ApplyAfterTuner ==
    \A w \in Leads :
        pc[w] \in ApplyPhase =>
            /\ tuner_runs >= iter[w]
            /\ (w # core_first => pc[core_first] # "tuner")

\* C4: every worker that has written the prefetch MSR is a module lead
\* (module index 0).
C4_OnlyLeadsWriteMsr ==
    \A w \in msr_writers : CORE_IN_MODULE(w) = 0

\* C5: once the process has exited, every module's prefetch MSR holds the
\* value it had before the program started.
C5_MsrRestoredAtExit ==
    ProcessExited => \A m \in Modules : msr[m] = msr_orig[m]

\* C6: the process exits only after every worker has left its loop and
\* finished.
C6_ExitAfterWorkersDone ==
    ProcessExited => \A w \in Workers : pc[w] = "done"

\* C7: a module lead that applied in its previous tick starts its sample
\* phase with hwpf_msr_dirty clear; the flag is cleared only by the apply
\* phase of its lead and set only while the primary runs the tuner.
C7_DirtyDiscipline ==
    [][\A w \in Leads :
          /\ (pc[w] = "loop" /\ pc'[w] = "arrive" /\ iter[w] >= 1
                 /\ applied[w] = iter[w]) => hwpf_msr_dirty[w] = 0
          /\ (hwpf_msr_dirty[w] = 1 /\ hwpf_msr_dirty'[w] = 0)
                 => pc[w] = "apply_clear"
          /\ (hwpf_msr_dirty[w] = 0 /\ hwpf_msr_dirty'[w] = 1)
                 => pc[core_first] = "tuner"]_vars

\* the smaller of two numbers
Min(a, b) == IF a < b THEN a ELSE b

\* C12: when parse_weights has returned for a comma-separated list of k valid
\* priorities v_1..v_k and N active cores, it returned 0, core i holds v_(i+1)
\* for i < min(k, N), cores min(k, N) .. N-1 hold the default 50, and the
\* values after the N-th are ignored.
C12_WeightsAssignedInOrder ==
    \A vs \in PriorityLists :
        (weight_string = CommaList(vs) /\ pw_ret.done) =>
            /\ pw_ret = Returned(0)
            /\ \A i \in 0 .. (ACTIVE_THREADS - 1) :
                   core_priority[i] =
                       IF i < Min(Len(vs), ACTIVE_THREADS) THEN vs[i + 1] ELSE 50

RECURSIVE Tokens(_)
\* the tokens of a comma-separated list
Tokens(s) ==
    LET t == Strtok(s)
    IN  IF t.token = <<>> THEN {} ELSE {t.token} \cup Tokens(t.rest)

\* a token that is an integer of 0 .. 99
ValidToken(tok) == \E v \in 0 .. 99 : tok = Numeral(v)

\* C13: parse_weights returns -1, and main returns before any worker thread
\* exists, whenever the list holds a token that is not an integer or is
\* outside 0..99, and returns 0 otherwise; once the threads are created every
\* active core's priority is within 0..99.
C13_InvalidWeightsRejected ==
    /\ pw_ret.done =>
          /\ pw_ret.val \in {0, -1}
          /\ pw_ret.val = -1 <=> \E tok \in Tokens(weight_string) : ~ValidToken(tok)
    /\ pw_ret = Returned(-1) => mainpc = "exited" /\ pc = <<>>
    /\ mainpc = "join" =>
          \A i \in 0 .. (ACTIVE_THREADS - 1) : core_priority[i] \in 0 .. 99

\* C14: the threads are never created with a ddr_bw_target that is zero or
\* negative (DDR_BW_AUTOTEST asks the threads for the self-test, which sets the
\* target before the loop).
C14_TargetPositiveAtStart ==
    mainpc = "join" => ddr_bw_target > 0 \/ ddr_bw_target = DDR_BW_AUTOTEST

\* the options of one kind that getopt has returned
OptsSeen(o) == {opts_seen[i] : i \in {j \in DOMAIN opts_seen : opts_seen[j].opt = o}}

\* C15: once the target is decided, it is a value given with --ddrbw-set if
\* that option was given, whatever its value and whatever else was given; else
\* the self-test is requested if --ddrbw-test was given; else the target is the
\* DMI bandwidth times the --ddrbw-auto factor.
C15_BandwidthPrecedence ==
    mainpc \in {"create", "join"} =>
        IF OptsSeen("D") # {}
          THEN ddr_bw_target \in {Strtol(o.str).val : o \in OptsSeen("D")}
        ELSE IF OptsSeen("t") # {}
          THEN ddr_bw_target = DDR_BW_AUTOTEST
        ELSE ddr_bw_target = FloatToInt(dmi_bandwidth, ddr_bw_auto_utilization)

\* C17: aggr stays within 0.1 .. 5.0 (1 .. 50 tenths) and time_intervall within
\* 0.0001 .. 60 s (1 .. 600000 units of 0.0001 s), whatever the command line.
C17_AggrClamped ==
    /\ 1 <= aggr /\ aggr <= 50
    /\ 1 <= time_intervall /\ time_intervall <= 600000

\* C16: after every published delta, the operand standing for the previous
\* snapshot had been given a value, and the delta is curr - prev when
\* curr >= prev and 0 when the new reading is below the previous one, never
\* the difference wrapped modulo 2^64.
C16_DeltaNeverWraps ==
    (dpc = "sleep" /\ dtick >= 1) =>
        /\ old_set
        /\ IF tunealg # MAB
             THEN pmu_result =
                    IF Less64(pmu_new, pmu_old) THEN U64(0)
                    ELSE Sub64(pmu_new, pmu_old)
             ELSE instructions_retired =
                    IF Less64(instructions_new, instructions_old) THEN U64(0)
                    ELSE Sub64(instructions_new, instructions_old)

C19_NoUcbBeforeAllArmsPulled ==
    /\ selection = "ucb" => \A a \in Arms : trials[a] >= 1
    /\ selection = "round_robin" => pulls[Len(pulls)] = Len(pulls) - 1
    /\ \A i \in 1 .. Min(Len(pulls), Cardinality(Arms)) : pulls[i] = i - 1
    /\ Len(pulls) > Cardinality(Arms) => selection = "ucb"

\* the first UCB choice, made right after the last arm's first pull was recorded
C19_Witness ==
    /\ selection = "ucb"
    /\ Len(pulls) = Cardinality(Arms) + 1
    /\ \A a \in Arms : trials[a] = 1

\* C11: when the timer callback is about to invoke kernel_basicalg, pmu_update
\* has run in this callback for every online core whose core_disabled flag is
\* clear.
C11_TunerAfterAllPmuUpdates ==
    tpc = "alg" =>
        \A c \in OnlineCpus : core_disabled[c] = FALSE => c \in pmu_updated

\* a CORE_RANGE request is processed in this step by caller p
CoreRangeStep(p) ==
    /\ kpc[p] = "wr_handle"
    /\ kpc'[p] = "wr_pubptr"
    /\ heap'[wr_resp'[p]].type = "CORE_RANGE"

\* C20: the callback is about to run pmu_update or msr_update only for a core
\* whose core_disabled flag is clear, and msr_update only for a module lead
\* whose MSR image is dirty; after module load every core is disabled; the
\* flags change only when a CORE_RANGE(start, end) request is processed, which
\* leaves a core enabled exactly when start <= core_id <= end.
C20_OnlyEnabledCoresTouched ==
    /\ \A c \in Cores : core_disabled[c] = TRUE
    /\ [][/\ core_disabled' # core_disabled => \E p \in Callers : CoreRangeStep(p)
          /\ \A p \in Callers :
                CoreRangeStep(p) =>
                    \A c \in Cores :
                        core_disabled'[c] = FALSE <=>
                            (heap'[wr_resp'[p]].arg[1] <= c
                               /\ c <= heap'[wr_resp'[p]].arg[2])]_vars
    /\ [](/\ tpc \in {"pmu", "msr"} => core_disabled[t_core] = FALSE
          /\ tpc = "msr" => K_CORE_IN_MODULE(t_core) = 0 /\ msr_dirty[t_core])

\* C22: with no quit requested, the primary's reset of syncflag wipes no
\* arrival of the next tick (at the reset syncflag counts exactly the
\* ACTIVE_THREADS arrivals of the tick that ends), and syncflag leaves 0 only
\* when no module lead is still waiting in while (syncflag != 0) for the
\* release, so every waiting lead has seen the zero.
C22_RendezvousLosesNothing ==
    /\ [][(/\ quitflag = 0
           /\ pc[core_first] = "release"
           /\ pc'[core_first] # "release")
          => syncflag = ACTIVE_THREADS]_vars
    /\ [][(quitflag = 0 /\ syncflag = 0 /\ syncflag' # 0)
          => \A w \in Leads \ {core_first} : pc[w] # "waitrel"]_vars

RECURSIVE MeasuredSum(_)
MeasuredSum(S) ==
    IF S = {} THEN 0
    ELSE LET w == CHOOSE x \in S : TRUE
         IN bw_measured[w] + MeasuredSum(S \ {w})

\* every thread that is not in the control loop spins in a busy-wait that the
\* others will not end
SelfTestStuck ==
    /\ ~exit_status.done
    /\ \E w \in Workers : stpc[w] # "ctl"
    /\ \A w \in Workers :
         \/ stpc[w] = "ctl"
         \/ stpc[w] = "wait_up" /\ ~AllInSelfTest
         \/ stpc[w] = "wait_down" /\ ~AllLeftSelfTest

\* C23: with the self-test requested, a thread is in the control loop only
\* after it has taken its measurement inside the block (none skips the
\* rendezvous), the flag is decremented only when no thread is still in the
\* first wait, the threads never all spin or stand in the control loop with
\* one of them left in a wait, and when core_first has passed the second
\* wait ddr_bw_target is the sum of the threads' measurements.
C23_SelfTestRendezvous ==
    /\ [](\A w \in Workers : stpc[w] = "ctl" => bw_measured[w] # NotMeasured)
    /\ [][ddrbwflag' < ddrbwflag => \A w \in Workers : stpc[w] # "wait_up"]_vars
    /\ [](~SelfTestStuck)
    /\ [](stpc[core_first] \in {"deinit", "ctl"}
            => ddr_bw_target = MeasuredSum(Workers))

\* the callback is at pmu_update, kernel_basicalg or msr_update
CallbackWorks == tpc \in {"pmu", "alg", "msr"}

RangeAccepted ==
    mainpc \in {"weights", "pw_loop", "pw_fill", "bw", "create", "join"}

\* C24: for every accepted core range the number of threads,
\* core_last - core_first + 1, is at least 1 and at most MAX_THREADS, so that
\* every index into gtinfo[] and core_priority[] is below MAX_THREADS and
\* gtinfo[0], which main joins, is a created thread.
C24_ThreadCountWithinArray ==
    RangeAccepted => 1 <= ACTIVE_THREADS /\ ACTIVE_THREADS <= MAX_THREADS

====
